---- MODULE Spec2Model ----
(***************************************************************************)
(* Chunking and vector retrieval of the postgres-and-pgvector teaching     *)
(* corpus.                                                                 *)
(*                                                                         *)
(* Strings are sequences of one-character strings, so that str.split and   *)
(* str.join do real work.  The k-th word of a document is the k-th letter  *)
(* of Alphabet: the chunkers move words and never look inside them, and    *)
(* distinct words let a property tell a lost word from a duplicated one.   *)
(***************************************************************************)
EXTENDS Integers, Sequences, FiniteSets, TLC

\* ------------------------------------------------------------------ bounds
MaxPages == 3
MaxPageWords == 2
MaxChunkSize == 3
MaxOverlap == 3
MaxSentences == 3
MaxSentenceWords == 2
MaxTextLen == 4
MaxItems == 2
MaxLimit == 2
MaxRuns == 2
MaxDocChunks == 2
\* Tickets in support_tickets, and backfill runs.
MaxTickets == 3
MaxBackfills == 3
\* Tables on a page.
MaxTables == 2

Alphabet ==
  <<"a", "b", "c", "d", "e", "f", "g", "h", "i", "j", "k", "l", "m", "n", "o", "p",
    "q", "r", "s", "t">>

\* ------------------------------------------------------- python primitives
Min(a, b) == IF a < b THEN a ELSE b
Max(a, b) == IF a > b THEN a ELSE b

\* c.isspace()
IsSpace(c) == c \in {" ", "\n"}

\* str.split() without arguments: the maximal runs of non-whitespace.
RECURSIVE split(_)
split(s) ==
  IF s = <<>> THEN <<>>
  ELSE IF IsSpace(Head(s)) THEN split(Tail(s))
  ELSE LET stops == {k \in 1..Len(s) : IsSpace(s[k])}
           n == IF stops = {} THEN Len(s) + 1
                ELSE CHOOSE k \in stops : \A j \in stops : k <= j
       IN <<SubSeq(s, 1, n - 1)>> \o split(SubSeq(s, n, Len(s)))

\* sep.join(parts)
RECURSIVE join(_, _)
join(sep, parts) ==
  IF parts = <<>> THEN <<>>
  ELSE IF Len(parts) = 1 THEN parts[1]
  ELSE parts[1] \o sep \o join(sep, Tail(parts))

\* s.strip()
RECURSIVE lstrip(_)
lstrip(s) == IF s # <<>> /\ IsSpace(Head(s)) THEN lstrip(Tail(s)) ELSE s

RECURSIVE rstrip(_)
rstrip(s) ==
  IF s # <<>> /\ IsSpace(s[Len(s)]) THEN rstrip(SubSeq(s, 1, Len(s) - 1)) ELSE s

strip(s) == lstrip(rstrip(s))

\* A slice index: a negative one counts from the end, and both ends are
\* clipped to the list.
SliceIndex(i, n) == IF i < 0 THEN Max(i + n, 0) ELSE Min(i, n)

\* seq[lo:hi]
PySlice(seq, lo, hi) ==
  SubSeq(seq, SliceIndex(lo, Len(seq)) + 1, SliceIndex(hi, Len(seq)))

\* seq[-k:] for k >= 0; -0 is 0, so seq[-0:] is the whole list
PyTail(seq, k) ==
  IF k = 0 THEN seq ELSE SubSeq(seq, Max(Len(seq) - k, 0) + 1, Len(seq))

\* --------------------------------------------------------------- documents
SeqsUpTo(S, n) == UNION {[1..k -> S] : k \in 0..n}

\* The words first+1 .. first+n of the document, as one text.
TextOf(first, n) == join(<<" ">>, [k \in 1..n |-> <<Alphabet[first + k]>>])

RECURSIVE Materialize(_, _)
Materialize(layout, first) ==
  IF layout = <<>> THEN <<>>
  ELSE <<TextOf(first, Head(layout))>>
         \o Materialize(Tail(layout), first + Head(layout))

\* reader.pages: the text of every page, "" for a page without text.
PdfDocuments == {Materialize(l, 0) : l \in SeqsUpTo(0..MaxPageWords, MaxPages)}

\* sent_tokenize(text): sentences, each of at least one word.
SentenceLists == {Materialize(l, 0) : l \in SeqsUpTo(1..MaxSentenceWords, MaxSentences)}

\* Page text of the structural chunker: x a word character, N a legal-clause
\* signal ("Notwithstanding"), blanks and newlines.
TextChars == {"x", "N", " ", "\n"}
PageTexts == SeqsUpTo(TextChars, MaxTextLen)

NoPage == 0

VARIABLES
  impl,              \* which chunker runs
  pages,             \* reader.pages, the text of each page
  sentences,         \* sent_tokenize(text)
  text,              \* the page text handed to the structural chunk_text
  page_number,       \* the page handed to the structural chunk_text
  tokens,            \* chunk_size
  overlap,
  pc,
  page_i,            \* pages extracted so far
  words_with_pages,  \* all_words in pdf_processor
  start,             \* the window start (i in pdf_processor)
  pos,               \* sentences / paragraphs consumed so far
  paragraphs,
  current_chunk,
  current_length,
  chunks,            \* the chunks emitted so far, in order
  outcome

chunkVars ==
  <<impl, pages, sentences, text, page_number, tokens, overlap, pc, page_i,
    words_with_pages, start, pos, paragraphs, current_chunk, current_length,
    chunks, outcome>>

VARIABLES
  api,               \* which retrieval entry point runs
  items,             \* the rows of the store, in insertion order
  limit,
  threshold,         \* None or a distance
  subject_filter,    \* None or a string
  distance_metric,
  spc,               \* the stage of the retrieval call
  embed_ok,          \* the embedding call returned a vector
  query_embedding,
  connections,       \* store connections opened by this call
  executed,          \* the query vectors sent to the store, in order
  results,           \* the value returned to the caller
  search_outcome     \* running, returned, raised or exit

searchVars ==
  <<api, items, limit, threshold, subject_filter, distance_metric, spc, embed_ok,
    query_embedding, connections, executed, results, search_outcome>>

VARIABLES
  script,            \* which ingestion program runs, or ran last
  docs,              \* the committed rows of the docs table
  tx,                \* the rows as the open transaction sees them
  ipc,               \* idle, clear, loop or persist
  pdf_id,
  doc_chunks,        \* the chunks of the document being ingested, in order
  ck,                \* chunks handled so far
  failed,            \* the chunks whose embedding call failed
  next_uuid,         \* the next id uuid4 hands out
  runs,              \* the runs ended so far
  before,            \* docs when the run started
  used,              \* the programs run so far
  latest,            \* per pdf_id, the chunks of its latest completed ingestion
  run_outcome        \* running, committed or exit

ingestVars ==
  <<script, docs, tx, ipc, pdf_id, doc_chunks, ck, failed, next_uuid, runs,
    before, used, latest, run_outcome>>

VARIABLES
  pipeline,          \* which caller of a retrieval function runs
  apc,               \* the stage of the caller
  llm_reply,         \* the outcome of the language-model request, once made
  response,          \* none, answer, note or skipped
  delivered,         \* the value handed back holds the retrieved matches
  call_outcome       \* running, returned, bad_request or raised

answerVars == <<pipeline, apc, llm_reply, response, delivered, call_outcome>>

\* The concurrent ingestions.
VARIABLES
  store,          \* the committed rows of docs
  wpc,            \* where each worker is
  wsrc,           \* its args.id
  wchunks,        \* its list of chunks
  wk,             \* how many of them it has inserted
  wsnap,          \* the rows its DELETE statement sees
  wdel,           \* the ids of the rows its transaction has deleted
  wins,           \* the rows its transaction has inserted
  wuuid           \* the next uuid4

workerVars == <<store, wpc, wsrc, wchunks, wk, wsnap, wdel, wins, wuuid>>

\* The embedding backfill of support_tickets.
VARIABLES
  support_tickets, \* the committed embedding of every ticket, None for NULL
  btx,             \* the table as the open transaction sees it
  bpc,             \* where generate_embeddings_for_tickets is
  fetched,         \* tickets = cursor.fetchall(), the ids
  bi,              \* how many of them the loop has handled
  updated,         \* the ids the UPDATE statements were executed for
  bruns            \* the runs ended so far

backfillVars == <<support_tickets, btx, bpc, fetched, bi, updated, bruns>>

\* What a PDF page holds besides its words.
VARIABLES
  unreadable,     \* the pages whose extract_text() gives None
  tables,         \* len(page.extract_tables()) of the page parsed
  diagram         \* page_has_diagram(page)

pdfVars == <<unreadable, tables, diagram>>

\* The command line of pdf_processor.
VARIABLES
  command,        \* args.command
  args,           \* args.chunk_size and args.overlap, None when not given
  config          \* load_config()

cliVars == <<command, args, config>>

vars == <<chunkVars, searchVars, ingestVars, answerVars, workerVars, backfillVars, pdfVars, cliVars>>

WordWindow == {"ingest", "pdf_processor"}

\* ---------------------------------------------------- word-window chunkers
\* [(word, i + 1) for word in text.split()], skipped when text is empty
PageWords(i) ==
  IF pages[i] # <<>> THEN [k \in 1..Len(split(pages[i])) |-> <<split(pages[i])[k], i>>]
  ELSE <<>>

\* for word in words: all_words.append((word, page_num))
PageWordsProcessor(i) ==
  [k \in 1..Len(split(pages[i])) |-> <<split(pages[i])[k], i>>]

\* page.extract_text() of a page whose text cannot be extracted: None, or an
\* exception of the PDF library.
Unextractable == {"None", "raises"}

\* ingest.py skips a None ("if text:") and has no handler for an exception;
\* pdf_processor calls None.split(), and its "except Exception" ends every
\* exception with sys.exit(1).
OnUnextractable(result) ==
  IF impl = "ingest"
    THEN (IF result = "None" THEN "skip" ELSE "Exception")
    ELSE "exit"

\* One iteration of the page loop.
ExtractPage ==
  /\ pc = "extract"
  /\ page_i < Len(pages)
  /\ IF page_i + 1 \in unreadable
       THEN \E result \in Unextractable :
              IF OnUnextractable(result) = "skip"
                THEN /\ page_i' = page_i + 1
                     /\ UNCHANGED <<words_with_pages, pc, outcome>>
                ELSE /\ outcome' = OnUnextractable(result)
                     /\ pc' = "done"
                     /\ UNCHANGED <<page_i, words_with_pages>>
       ELSE /\ page_i' = page_i + 1
            /\ words_with_pages' =
                 words_with_pages
                   \o (IF impl = "ingest" THEN PageWords(page_i + 1)
                       ELSE PageWordsProcessor(page_i + 1))
            /\ UNCHANGED <<pc, outcome>>
  /\ UNCHANGED <<impl, pages, sentences, text, page_number, tokens, overlap,
                 start, pos, paragraphs, current_chunk, current_length, chunks>>
  /\ UNCHANGED <<searchVars, ingestVars, answerVars, workerVars,
                 backfillVars, pdfVars, cliVars>>

\* the step of range(0, len(words_with_pages), tokens - overlap)
RangeStepNext(t, o) == t - o + 1
RangeStep(t, o) == t - o

\* The step without its floor of one word.
AdvanceUnfloored(t, o) == t - o
\* i += max(1, chunk_size - overlap)
Advance(t, o) == Max(1, t - o)

\* start_page = chunk_data[0][1]
StartPageLast(chunk_data) == chunk_data[Len(chunk_data)][2]
StartPage(chunk_data) == chunk_data[1][2]

\* " ".join([item[0] for item in chunk_data])
ChunkText(chunk_data) ==
  join(<<" ">>, [k \in 1..Len(chunk_data) |-> chunk_data[k][1]])

\* range() raises ValueError for a step of zero, when the generator first runs
\* past the page loop.
BeginChunking ==
  /\ pc = "extract"
  /\ page_i = Len(pages)
  /\ start' = 0
  /\ IF impl = "ingest" /\ RangeStep(tokens, overlap) = 0
       THEN pc' = "done" /\ outcome' = "ValueError"
       ELSE pc' = "chunk" /\ UNCHANGED outcome
  /\ UNCHANGED <<impl, pages, sentences, text, page_number, tokens, overlap, page_i,
                 words_with_pages, pos, paragraphs, current_chunk, current_length,
                 chunks>>
  /\ UNCHANGED <<searchVars, ingestVars, answerVars, workerVars,
                 backfillVars, pdfVars, cliVars>>

\* start is in range(0, n, step): below n for a positive step, above n for a
\* negative one.
InRange(s, n, step) == IF step > 0 THEN s < n ELSE s > n

\* One iteration of the generator's for loop (ingest.py, 01-simple-chunker.py).
YieldChunk ==
  /\ pc = "chunk"
  /\ impl = "ingest"
  /\ InRange(start, Len(words_with_pages), RangeStep(tokens, overlap))
  /\ LET chunk_data == PySlice(words_with_pages, start, start + tokens)
     IN chunks' =
          IF chunk_data # <<>>
            THEN Append(chunks, [page |-> StartPage(chunk_data),
                                 text |-> ChunkText(chunk_data)])
            ELSE chunks
  /\ start' = start + RangeStep(tokens, overlap)
  /\ UNCHANGED <<impl, pages, sentences, text, page_number, tokens, overlap, pc,
                 page_i, words_with_pages, pos, paragraphs, current_chunk,
                 current_length, outcome>>
  /\ UNCHANGED <<searchVars, ingestVars, answerVars, workerVars,
                 backfillVars, pdfVars, cliVars>>

\* One iteration of the while loop of pdf_processor.chunks_from_pdf.
AppendChunk ==
  /\ pc = "chunk"
  /\ impl = "pdf_processor"
  /\ start < Len(words_with_pages)
  /\ LET chunk_words == PySlice(words_with_pages, start, start + tokens)
     IN IF chunk_words = <<>>
          THEN /\ pc' = "done"        \* "if not chunk_words: break"
               /\ outcome' = "ok"
               /\ UNCHANGED <<chunks, start>>
          ELSE /\ chunks' = Append(chunks, [page |-> chunk_words[1][2],
                                            text |-> ChunkText(chunk_words)])
               /\ start' = start + Advance(tokens, overlap)
               /\ UNCHANGED <<pc, outcome>>
  /\ UNCHANGED <<impl, pages, sentences, text, page_number, tokens, overlap,
                 page_i, words_with_pages, pos, paragraphs, current_chunk,
                 current_length>>
  /\ UNCHANGED <<searchVars, ingestVars, answerVars, workerVars,
                 backfillVars, pdfVars, cliVars>>

\* The loop is over: the generator is exhausted, or chunks is returned.
EndChunking ==
  /\ pc = "chunk"
  /\ \/ impl = "ingest"
        /\ ~InRange(start, Len(words_with_pages), RangeStep(tokens, overlap))
     \/ impl = "pdf_processor" /\ ~(start < Len(words_with_pages))
  /\ pc' = "done"
  /\ outcome' = "ok"
  /\ UNCHANGED <<impl, pages, sentences, text, page_number, tokens, overlap, page_i,
                 words_with_pages, start, pos, paragraphs, current_chunk,
                 current_length, chunks>>
  /\ UNCHANGED <<searchVars, ingestVars, answerVars, workerVars,
                 backfillVars, pdfVars, cliVars>>

\* ------------------------------------- sentence-aware chunk_text (3-chunking)
RECURSIVE WordCount(_)
\* sum(len(sent.split()) for sent in current_chunk)
WordCount(sents) ==
  IF sents = <<>> THEN 0 ELSE Len(split(Head(sents))) + WordCount(Tail(sents))

\* One iteration of "for sentence in sentences".
TakeSentence ==
  /\ pc = "sentences"
  /\ pos < Len(sentences)
  /\ LET sentence == sentences[pos + 1]
         sentence_length == Len(split(sentence))
         full == current_length + sentence_length > tokens
         kept == IF full THEN PyTail(current_chunk, overlap) ELSE current_chunk
         kept_length == IF full THEN WordCount(kept) ELSE current_length
     IN /\ chunks' =
             IF full
               THEN Append(chunks, [page |-> NoPage,
                                    text |-> join(<<" ">>, current_chunk)])
               ELSE chunks
        /\ current_chunk' = Append(kept, sentence)
        /\ current_length' = kept_length + sentence_length
  /\ pos' = pos + 1
  /\ UNCHANGED <<impl, pages, sentences, text, page_number, tokens, overlap, pc,
                 page_i, words_with_pages, start, paragraphs, outcome>>
  /\ UNCHANGED <<searchVars, ingestVars, answerVars, workerVars,
                 backfillVars, pdfVars, cliVars>>

\* "if current_chunk: chunks.append(...)" and "return chunks".
ReturnSentenceChunks ==
  /\ pc = "sentences"
  /\ pos = Len(sentences)
  /\ chunks' =
       IF current_chunk # <<>>
         THEN Append(chunks, [page |-> NoPage, text |-> join(<<" ">>, current_chunk)])
         ELSE chunks
  /\ pc' = "done"
  /\ outcome' = "ok"
  /\ UNCHANGED <<impl, pages, sentences, text, page_number, tokens, overlap, page_i,
                 words_with_pages, start, pos, paragraphs, current_chunk,
                 current_length>>
  /\ UNCHANGED <<searchVars, ingestVars, answerVars, workerVars,
                 backfillVars, pdfVars, cliVars>>

\* ------------------------------------------- structural chunk_text (01a-parse)
\* "#" stands for the marker "### LEGAL_SPLIT_POINT ###", "N" for a phrase of
\* LEGAL_CLAUSE_SPLITTERS.
\* A list of phrases that would hold the name of a placeholder as well.
SignalOrTable(c) == c \in {"N", "T"}
\* re.sub over LEGAL_CLAUSE_SPLITTERS, flags=re.IGNORECASE
IsSignal(c) == c = "N"

\* re.sub(f"({signal})", r"\n\n### LEGAL_SPLIT_POINT ### \1", text)
RECURSIVE MarkSignals(_)
MarkSignals(s) ==
  IF s = <<>> THEN <<>>
  ELSE (IF IsSignal(Head(s)) THEN <<"\n", "\n", "#", " ", Head(s)>> ELSE <<Head(s)>>)
         \o MarkSignals(Tail(s))

\* The end of the leftmost-first, greedy match of \n\s*\n that starts at i, or
\* 0 when there is none: the last newline of the whitespace run after i.
BreakEnd(s, i) ==
  LET ends == {j \in i + 1..Len(s) :
                 s[j] = "\n" /\ \A k \in i + 1..j : IsSpace(s[k])}
  IN IF s[i] = "\n" /\ ends # {}
       THEN CHOOSE j \in ends : \A k \in ends : k <= j
       ELSE 0

\* re.split(r"\n\s*\n", s)
RECURSIVE SplitParagraphs(_)
SplitParagraphs(s) ==
  LET begins == {i \in 1..Len(s) : BreakEnd(s, i) # 0}
  IN IF begins = {} THEN <<s>>
     ELSE LET i == CHOOSE b \in begins : \A c \in begins : b <= c
          IN <<SubSeq(s, 1, i - 1)>>
               \o SplitParagraphs(SubSeq(s, BreakEnd(s, i) + 1, Len(s)))

\* para.strip().startswith("### LEGAL_SPLIT_POINT ###")
StartsWithMarker(para) == strip(para) # <<>> /\ Head(strip(para)) = "#"

\* The replacement without its strip().
RemoveMarkerOnly(para) == SelectSeq(para, LAMBDA c : c # "#")
\* para.replace("### LEGAL_SPLIT_POINT ###", "").strip()
RemoveMarker(para) == strip(SelectSeq(para, LAMBDA c : c # "#"))

\* The signal loop and the paragraph split at the head of chunk_text.
PreSplit ==
  /\ pc = "presplit"
  /\ paragraphs' = SplitParagraphs(strip(MarkSignals(text)))
  /\ pc' = "paragraphs"
  /\ UNCHANGED <<impl, pages, sentences, text, page_number, tokens, overlap, page_i,
                 words_with_pages, start, pos, current_chunk, current_length,
                 chunks, outcome>>
  /\ UNCHANGED <<searchVars, ingestVars, answerVars, workerVars,
                 backfillVars, pdfVars, cliVars>>

StructuralChunk(parts) == [page |-> page_number, text |-> join(<<"\n", "\n">>, parts)]

\* One iteration of "for para in paragraphs".
TakeParagraph ==
  /\ pc = "paragraphs"
  /\ pos < Len(paragraphs)
  /\ LET para == paragraphs[pos + 1]
     IN IF StartsWithMarker(para)
          THEN /\ chunks' = IF current_chunk # <<>>
                              THEN Append(chunks, StructuralChunk(current_chunk))
                              ELSE chunks
               /\ current_chunk' = <<RemoveMarker(para)>>
          ELSE /\ current_chunk' = Append(current_chunk, para)
               /\ UNCHANGED chunks
  /\ pos' = pos + 1
  /\ UNCHANGED <<impl, pages, sentences, text, page_number, tokens, overlap, pc,
                 page_i, words_with_pages, start, paragraphs, current_length,
                 outcome>>
  /\ UNCHANGED <<searchVars, ingestVars, answerVars, workerVars,
                 backfillVars, pdfVars, cliVars>>

\* "if current_chunk: chunks.append(...)" and "return chunks".
ReturnStructuralChunks ==
  /\ pc = "paragraphs"
  /\ pos = Len(paragraphs)
  /\ chunks' = IF current_chunk # <<>>
                 THEN Append(chunks, StructuralChunk(current_chunk))
                 ELSE chunks
  /\ pc' = "done"
  /\ outcome' = "ok"
  /\ UNCHANGED <<impl, pages, sentences, text, page_number, tokens, overlap, page_i,
                 words_with_pages, start, pos, paragraphs, current_chunk,
                 current_length>>
  /\ UNCHANGED <<searchVars, ingestVars, answerVars, workerVars,
                 backfillVars, pdfVars, cliVars>>

\* --------------------------------------------------------------- retrieval
\* An optional value is None or a one-element tuple; an optional string is
\* NoString or the string.
None == <<>>
Some(x) == <<x>>
NoString == "None"

\* The reply of a collaborator whose call failed.
Failure == <<>>

\* Embeddings, the 1024 dimensions shrunk to two.  Every distance between two of
\* these vectors is a whole number under each of the three operators.
Vectors == {<<3, 0>>, <<0, 4>>, <<-3, 0>>}

\* [0.0] * 1024
ZeroVector == <<0, 0>>

Subjects == {"physics", "history"}

\* The items table: name, item_data->>'subject' and embedding of every row.
Stores ==
  {[i \in 1..Len(s) |-> [name |-> i, subject |-> s[i][1], embedding |-> s[i][2]]] :
     s \in SeqsUpTo(Subjects \X Vectors, MaxItems)}

\* Distances are held in units of 0.00001.
Fixed(n) == n * 100000

Abs(x) == IF x < 0 THEN -x ELSE x

Dot(a, b) == a[1] * b[1] + a[2] * b[2]

\* The norm of a vector whose squared norm is a perfect square.
Norm(a) == CHOOSE r \in 0..Dot(a, a) : r * r = Dot(a, a)

\* embedding <=> q
CosineDistance(a, b) == Fixed(1) - (Fixed(1) * Dot(a, b)) \div (Norm(a) * Norm(b))

\* embedding <-> q
L2Distance(a, b) ==
  LET d == <<a[1] - b[1], a[2] - b[2]>> IN Fixed(Norm(d))

\* The inner product, not negated.
InnerProduct(a, b) == Fixed(Dot(a, b))
\* embedding <#> q, the negated inner product
NegInnerProduct(a, b) == Fixed(-Dot(a, b))

\* distance_ops
Distance(op, a, b) ==
  CASE op = "<=>" -> CosineDistance(a, b)
    [] op = "<->" -> L2Distance(a, b)
    [] op = "<#>" -> NegInnerProduct(a, b)

\* distance_ops[distance_metric], cosine for an unknown metric
DistanceOp(metric) ==
  CASE metric = "cosine" -> "<=>"
    [] metric = "euclidean" -> "<->"
    [] metric = "inner_product" -> "<#>"
    [] OTHER -> "<=>"

\* ROUND(x::numeric, 4): half away from zero, on units of 0.00001
Round4(x) ==
  LET q == (Abs(x) + 5) \div 10 IN IF x < 0 THEN -(q * 10) ELSE q * 10

\* Python truthiness of the optional subject_filter
Truthy(v) == v # NoString /\ v # ""

\* The %s placeholders of the statement search_similar builds, in order.
Placeholders(thr, subj) ==
  <<"select_vec">>
    \o (IF thr # None THEN <<"where_vec", "where_threshold">> ELSE <<>>)
    \o (IF Truthy(subj) THEN <<"where_subject">> ELSE <<>>)
    \o <<"order_vec", "limit">>

\* params without the subject the WHERE clause names.
ParamsWithoutSubject(vec, thr, subj, lim) ==
  <<vec>> \o (IF thr # None THEN <<vec, thr[1]>> ELSE <<>>) \o <<vec, lim>>
\* params, as search_similar and retrieve_context extend it
Params(vec, thr, subj, lim) ==
  <<vec>>
    \o (IF thr # None THEN <<vec, thr[1]>> ELSE <<>>)
    \o (IF Truthy(subj) THEN <<subj>> ELSE <<>>)
    \o <<vec, lim>>

\* cursor.execute binds the k-th parameter to the k-th placeholder.
Bind(ph, pa) == [k \in 1..Len(ph) |-> <<ph[k], pa[k]>>]
Bound(b, role) == (CHOOSE k \in 1..Len(b) : b[k][1] = role)
Has(b, role) == \E k \in 1..Len(b) : b[k][1] = role
Value(b, role) == b[Bound(b, role)][2]

\* "embedding op %s < %s"
Within(d, thr) == d < thr

\* The rows the WHERE clause keeps.
Matching(b, op) ==
  {i \in 1..Len(items) :
     /\ Has(b, "where_threshold") =>
          Within(Distance(op, items[i].embedding, Value(b, "where_vec")),
                 Value(b, "where_threshold"))
     /\ Has(b, "where_subject") => items[i].subject = Value(b, "where_subject")}

\* ORDER BY embedding op %s: ascending, equal distances in insertion order.
RECURSIVE Ordered(_, _, _)
Ordered(S, op, vec) ==
  IF S = {} THEN <<>>
  ELSE LET key(i) == Distance(op, items[i].embedding, vec)
           first == CHOOSE i \in S :
                      \A j \in S : key(i) < key(j) \/ (key(i) = key(j) /\ i <= j)
       IN <<first>> \o Ordered(S \ {first}, op, vec)

\* The last lim rows instead of the first.
LimitedFromEnd(seq, lim) == SubSeq(seq, Len(seq) - Min(lim, Len(seq)) + 1, Len(seq))
\* LIMIT %s; the store refuses a negative LIMIT.
Limited(seq, lim) == SubSeq(seq, 1, Min(lim, Len(seq)))

\* cursor.fetchall() of the built statement, or Failure when the store raises.
Select(b, op, rounded) ==
  IF Value(b, "limit") < 0 THEN Failure
  ELSE Some(
       LET hits == Limited(Ordered(Matching(b, op), op, Value(b, "order_vec")),
                           Value(b, "limit"))
       IN [k \in 1..Len(hits) |->
             LET d == Distance(op, items[hits[k]].embedding, Value(b, "select_vec"))
             IN [name |-> items[hits[k]].name,
                 subject |-> items[hits[k]].subject,
                 similarity |-> IF rounded THEN Round4(d) ELSE d]])

\* cursor.execute(sql, params): the store raises when the statement has more
\* or fewer placeholders than there are parameters.
Execute(ph, pa, op, rounded) ==
  IF Len(ph) # Len(pa) THEN Failure ELSE Select(Bind(ph, pa), op, rounded)

Assistants == {"search_similar", "retrieve_context"}

\* retrieve_context always uses <=> and reports the distance unrounded.
Operator == IF api = "search_similar" THEN DistanceOp(distance_metric) ELSE "<=>"

\* try: query_embedding = self.get_embedding(query) / except: return []
EmbedQuery ==
  /\ spc = "embed"
  /\ api \in Assistants
  /\ \E reply \in Vectors \cup {Failure} :
       IF reply = Failure
         THEN /\ embed_ok' = FALSE
              /\ results' = <<>>
              /\ search_outcome' = "returned"
              /\ spc' = "done"
              /\ UNCHANGED query_embedding
         ELSE /\ embed_ok' = TRUE
              /\ query_embedding' = reply
              /\ spc' = "connect"
              /\ UNCHANGED <<results, search_outcome>>
  /\ UNCHANGED <<api, items, limit, threshold, subject_filter, distance_metric,
                 connections, executed>>
  /\ UNCHANGED <<chunkVars, ingestVars, answerVars, workerVars,
                 backfillVars, pdfVars, cliVars>>

\* with self.get_db_connection() as conn / except: return []
Connect ==
  /\ spc = "connect"
  /\ api \in Assistants
  /\ \E up \in BOOLEAN :
       IF up
         THEN /\ connections' = connections + 1
              /\ spc' = "execute"
              /\ UNCHANGED <<results, search_outcome>>
         ELSE /\ results' = <<>>
              /\ search_outcome' = "returned"
              /\ spc' = "done"
              /\ UNCHANGED connections
  /\ UNCHANGED <<api, items, limit, threshold, subject_filter, distance_metric,
                 embed_ok, query_embedding, executed>>
  /\ UNCHANGED <<chunkVars, ingestVars, answerVars, workerVars,
                 backfillVars, pdfVars, cliVars>>

\* cursor.execute(sql, params), fetchall and the returned list; [] when the
\* store raises.
ExecuteQuery ==
  /\ spc = "execute"
  /\ api \in Assistants
  /\ LET ph == Placeholders(threshold, subject_filter)
         pa == Params(query_embedding, threshold, subject_filter, limit)
         rows == Execute(ph, pa, Operator, api = "search_similar")
     IN /\ executed' = Append(executed, pa[1])
        /\ results' = IF rows = Failure THEN <<>> ELSE rows[1]
  /\ search_outcome' = "returned"
  /\ spc' = "done"
  /\ UNCHANGED <<api, items, limit, threshold, subject_filter, distance_metric,
                 embed_ok, query_embedding, connections>>
  /\ UNCHANGED <<chunkVars, ingestVars, answerVars, workerVars,
                 backfillVars, pdfVars, cliVars>>

\* ------------------------------------------------ the query script (query.py)
\* utils.get_embedding: the vector, or the zero vector when the request fails
get_embedding(reply) == IF reply = Failure THEN ZeroVector ELSE reply

\* conn = get_db_connection() / except psycopg.OperationalError: exit()
ScriptConnect ==
  /\ spc = "script_connect"
  /\ \E up \in BOOLEAN :
       IF up
         THEN /\ connections' = connections + 1
              /\ spc' = "script_embed"
              /\ UNCHANGED search_outcome
         ELSE /\ search_outcome' = "exit"
              /\ spc' = "done"
              /\ UNCHANGED connections
  /\ UNCHANGED <<api, items, limit, threshold, subject_filter, distance_metric,
                 embed_ok, query_embedding, executed, results>>
  /\ UNCHANGED <<chunkVars, ingestVars, answerVars, workerVars,
                 backfillVars, pdfVars, cliVars>>

\* query_embedding = get_embedding(query_text)
ScriptEmbed ==
  /\ spc = "script_embed"
  /\ \E reply \in Vectors \cup {Failure} :
       /\ embed_ok' = (reply # Failure)
       /\ query_embedding' = get_embedding(reply)
  /\ spc' = "script_execute"
  /\ UNCHANGED <<api, items, limit, threshold, subject_filter, distance_metric,
                 connections, executed, results, search_outcome>>
  /\ UNCHANGED <<chunkVars, ingestVars, answerVars, workerVars,
                 backfillVars, pdfVars, cliVars>>

\* "SELECT text, page FROM docs ORDER BY embedding <-> %s::vector LIMIT 1" and
\* cur.fetchone()
ScriptExecute ==
  /\ spc = "script_execute"
  /\ LET hits == Limited(Ordered(1..Len(items), "<->", query_embedding), 1)
     IN results' = [k \in 1..Len(hits) |->
                      [name |-> items[hits[k]].name,
                       subject |-> items[hits[k]].subject]]
  /\ executed' = Append(executed, query_embedding)
  /\ search_outcome' = "returned"
  /\ spc' = "done"
  /\ UNCHANGED <<api, items, limit, threshold, subject_filter, distance_metric,
                 embed_ok, query_embedding, connections>>
  /\ UNCHANGED <<chunkVars, ingestVars, answerVars, workerVars,
                 backfillVars, pdfVars, cliVars>>

\* ------------------------------------- search_similar_text (query_template)
\* The docs rows are held in items, the pdf_id of a row in its subject field
\* and the pdf_id argument in subject_filter.
\* query_embedding = get_embedding(query_text); the exception of a failed
\* request leaves search_similar_text.
TextEmbed ==
  /\ spc = "text_embed"
  /\ \E reply \in Vectors \cup {Failure} :
       IF reply = Failure
         THEN /\ search_outcome' = "raised"
              /\ spc' = "done"
              /\ UNCHANGED <<embed_ok, query_embedding>>
         ELSE /\ embed_ok' = TRUE
              /\ query_embedding' = reply
              /\ spc' = "text_connect"
              /\ UNCHANGED search_outcome
  /\ UNCHANGED <<api, items, limit, threshold, subject_filter, distance_metric,
                 connections, executed, results>>
  /\ UNCHANGED <<chunkVars, ingestVars, answerVars, workerVars,
                 backfillVars, pdfVars, cliVars>>

\* conn = get_db_connection()
TextConnect ==
  /\ spc = "text_connect"
  /\ \E up \in BOOLEAN :
       IF up
         THEN /\ connections' = connections + 1
              /\ spc' = "text_execute"
              /\ UNCHANGED search_outcome
         ELSE /\ search_outcome' = "raised"
              /\ spc' = "done"
              /\ UNCHANGED connections
  /\ UNCHANGED <<api, items, limit, threshold, subject_filter, distance_metric,
                 embed_ok, query_embedding, executed, results>>
  /\ UNCHANGED <<chunkVars, ingestVars, answerVars, workerVars,
                 backfillVars, pdfVars, cliVars>>

\* "SELECT text, page, embedding <=> %s as similarity FROM docs
\*  WHERE pdf_id = %s ORDER BY similarity ASC LIMIT %s"
SelectText(b) ==
  IF Value(b, "limit") < 0 THEN Failure
  ELSE Some(
       LET hits == Limited(Ordered(Matching(b, "<=>"), "<=>", Value(b, "select_vec")),
                           Value(b, "limit"))
       IN [k \in 1..Len(hits) |->
             [name |-> items[hits[k]].name,
              subject |-> items[hits[k]].subject,
              similarity |-> Distance("<=>", items[hits[k]].embedding,
                                      Value(b, "select_vec"))]])

\* cur.execute(sql, (query_embedding, pdf_id, limit)), fetchall, return results
TextExecute ==
  /\ spc = "text_execute"
  /\ LET b == Bind(<<"select_vec", "where_subject", "limit">>,
                   <<query_embedding, subject_filter, limit>>)
         rows == SelectText(b)
     IN /\ executed' = Append(executed, Value(b, "select_vec"))
        /\ IF rows = Failure
             THEN search_outcome' = "raised" /\ UNCHANGED results
             ELSE search_outcome' = "returned" /\ results' = rows[1]
  /\ spc' = "done"
  /\ UNCHANGED <<api, items, limit, threshold, subject_filter, distance_metric,
                 embed_ok, query_embedding, connections>>
  /\ UNCHANGED <<chunkVars, ingestVars, answerVars, workerVars,
                 backfillVars, pdfVars, cliVars>>

\* --------------------------------------------------------------- ingestion
Sources == {"alice_in_wonderland", "data.pdf"}

\* The documents at pdf_path, told apart by their text.
Documents == {"d1", "d2"}

\* list(chunks_from_pdf(path)): chunk k of a document starts on page k.
ChunksOf(doc, n) == [k \in 1..n |-> [page |-> k, text |-> <<doc, k>>]]

\* data["embeddings"][0], the vector the embedding model gives a text.
Embedding(t) == IF t[1] = "d1" THEN <<3, 0>> ELSE <<0, 4>>

\* The programs that clear rows and insert inside one "with conn" block.
WithBlock == {"ingest", "pdf_processor", "ingest_template"}

\* docs has the primary key (id).
HasId(table, id) == \E r \in table : r.id = id

\* INSERT INTO docs (id, pdf_id, page, text, embedding) VALUES (...)
Insert(table, row) == table \cup {row}

\* The upsert ON CONFLICT (id) DO UPDATE would be.
InsertOrReplace(table, row) == {r \in table : r.id # row.id} \cup {row}
\* INSERT ... ON CONFLICT (id) DO NOTHING
InsertOnConflictDoNothing(table, row) ==
  IF HasId(table, row.id) THEN table ELSE table \cup {row}

\* DELETE FROM docs WHERE pdf_id = %s
DeleteBySource(table, id) == {r \in table : r.pdf_id # id}

\* TRUNCATE TABLE docs
Truncate(table) == {}

NewRun(s, id, cs) ==
  /\ script' = s
  /\ pdf_id' = id
  /\ doc_chunks' = cs
  /\ ck' = 0
  /\ failed' = {}
  /\ before' = docs
  /\ tx' = docs
  /\ used' = used \cup {s}
  /\ run_outcome' = "running"

\* A "with conn, conn.cursor() as cur:" block is entered with the chunks of
\* the document at hand.  ingest.py and ingest_template.py name their pdf_id
\* in the program text, pdf_processor takes it from --id.
BeginIngest ==
  /\ ipc = "idle"
  /\ runs < MaxRuns
  /\ \E s \in WithBlock, id \in Sources, doc \in Documents, n \in 0..MaxDocChunks :
       NewRun(s, IF s = "pdf_processor" THEN id ELSE "alice_in_wonderland",
              ChunksOf(doc, n))
  /\ ipc' = "clear"
  /\ UNCHANGED <<docs, next_uuid, runs, latest>>
  /\ UNCHANGED <<chunkVars, searchVars, answerVars, workerVars,
                 backfillVars, pdfVars, cliVars>>

\* cur.execute("TRUNCATE TABLE docs")
TruncateDocs ==
  /\ ipc = "clear"
  /\ script = "ingest"
  /\ tx' = Truncate(tx)
  /\ ipc' = "loop"
  /\ UNCHANGED <<script, docs, pdf_id, doc_chunks, ck, failed, next_uuid, runs,
                 before, used, latest, run_outcome>>
  /\ UNCHANGED <<chunkVars, searchVars, answerVars, workerVars,
                 backfillVars, pdfVars, cliVars>>

\* cur.execute("DELETE FROM docs WHERE pdf_id = %s", (args.id,))
DeleteExisting ==
  /\ ipc = "clear"
  /\ script \in {"pdf_processor", "ingest_template"}
  /\ tx' = DeleteBySource(tx, pdf_id)
  /\ ipc' = "loop"
  /\ UNCHANGED <<script, docs, pdf_id, doc_chunks, ck, failed, next_uuid, runs,
                 before, used, latest, run_outcome>>
  /\ UNCHANGED <<chunkVars, searchVars, answerVars, workerVars,
                 backfillVars, pdfVars, cliVars>>

\* The row of chunk c with a new uuid4 id.
NewRow(c, embedding) ==
  [id |-> next_uuid, pdf_id |-> pdf_id, page |-> c.page, text |-> c.text,
   embedding |-> embedding]

\* ingest.py: one iteration of "for page_num, chunk in chunks_from_pdf(...)".
\* utils.get_embedding never returns None, "continue" is never reached.
IngestChunk ==
  /\ ipc = "loop"
  /\ script = "ingest"
  /\ ck < Len(doc_chunks)
  /\ LET c == doc_chunks[ck + 1]
     IN \E reply \in {Embedding(c.text), Failure} :
          /\ failed' = IF reply = Failure THEN failed \cup {ck + 1} ELSE failed
          /\ tx' = Insert(tx, NewRow(c, get_embedding(reply)))
  /\ next_uuid' = next_uuid + 1
  /\ ck' = ck + 1
  /\ UNCHANGED <<script, docs, ipc, pdf_id, doc_chunks, runs, before, used,
                 latest, run_outcome>>
  /\ UNCHANGED <<chunkVars, searchVars, answerVars, workerVars,
                 backfillVars, pdfVars, cliVars>>

\* pdf_processor: one iteration of the loop of ingest_pdf.  Its get_embedding
\* calls sys.exit(1) when the request fails; SystemExit leaves the "with conn"
\* block, which rolls the transaction back.
ProcessorChunk ==
  /\ ipc = "loop"
  /\ script = "pdf_processor"
  /\ ck < Len(doc_chunks)
  /\ LET c == doc_chunks[ck + 1]
     IN \E reply \in {Embedding(c.text), Failure} :
          IF reply = Failure
            THEN /\ failed' = failed \cup {ck + 1}
                 /\ tx' = docs
                 /\ ipc' = "idle"
                 /\ runs' = runs + 1
                 /\ run_outcome' = "exit"
                 /\ UNCHANGED <<ck, next_uuid>>
            ELSE /\ tx' = Insert(tx, NewRow(c, reply))
                 /\ next_uuid' = next_uuid + 1
                 /\ ck' = ck + 1
                 /\ UNCHANGED <<failed, ipc, runs, run_outcome>>
  /\ UNCHANGED <<script, docs, pdf_id, doc_chunks, before, used, latest>>
  /\ UNCHANGED <<chunkVars, searchVars, answerVars, workerVars,
                 backfillVars, pdfVars, cliVars>>

\* ingest_template: one iteration of the loop of main.  Its get_embedding
\* raises when the request fails; "except Exception: continue" skips the chunk.
TemplateChunk ==
  /\ ipc = "loop"
  /\ script = "ingest_template"
  /\ ck < Len(doc_chunks)
  /\ LET c == doc_chunks[ck + 1]
     IN \E reply \in {Embedding(c.text), Failure} :
          IF reply = Failure
            THEN /\ failed' = failed \cup {ck + 1}
                 /\ UNCHANGED <<tx, next_uuid>>
            ELSE /\ tx' = Insert(tx, NewRow(c, reply))
                 /\ next_uuid' = next_uuid + 1
                 /\ UNCHANGED failed
  /\ ck' = ck + 1
  /\ UNCHANGED <<script, docs, ipc, pdf_id, doc_chunks, runs, before, used,
                 latest, run_outcome>>
  /\ UNCHANGED <<chunkVars, searchVars, answerVars, workerVars,
                 backfillVars, pdfVars, cliVars>>

\* The "with conn" block is left without an exception: commit.
Commit ==
  /\ ipc = "loop"
  /\ ck = Len(doc_chunks)
  /\ docs' = tx
  /\ ipc' = "idle"
  /\ runs' = runs + 1
  /\ latest' = [latest EXCEPT ![pdf_id] = Some(doc_chunks)]
  /\ run_outcome' = "committed"
  /\ UNCHANGED <<script, tx, pdf_id, doc_chunks, ck, failed, next_uuid, before,
                 used>>
  /\ UNCHANGED <<chunkVars, searchVars, answerVars, workerVars,
                 backfillVars, pdfVars, cliVars>>

\* 01a-parse-with-json-field.py, main: chunk_text gives every chunk its id,
\* generate_embeddings its embedding; persist_chunks_to_db(chunks, "data.pdf")
\* is entered.
BeginParse ==
  /\ ipc = "idle"
  /\ runs < MaxRuns
  /\ \E doc \in Documents, n \in 0..MaxDocChunks :
       /\ NewRun("parse_json", "data.pdf",
                 [k \in 1..n |->
                    [id |-> next_uuid + k - 1, page |-> k, text |-> <<doc, k>>,
                     embedding |-> Embedding(<<doc, k>>)]])
       /\ next_uuid' = next_uuid + n
  /\ ipc' = "persist"
  /\ UNCHANGED <<docs, runs, latest>>
  /\ UNCHANGED <<chunkVars, searchVars, answerVars, workerVars,
                 backfillVars, pdfVars, cliVars>>

\* persist_chunks_to_db is called with chunks whose ids were handed out before:
\* a list persisted earlier, or one changed or embedded again since.
BeginPersistAgain ==
  /\ ipc = "idle"
  /\ runs < MaxRuns
  /\ \E id \in Sources, doc \in Documents, n \in 0..MaxDocChunks :
       \E ids \in [1..n -> 1..(next_uuid - 1)] :
         NewRun("persist_again", id,
                [k \in 1..n |->
                   [id |-> ids[k], page |-> k, text |-> <<doc, k>>,
                    embedding |-> Embedding(<<doc, k>>)]])
  /\ ipc' = "persist"
  /\ UNCHANGED <<docs, next_uuid, runs, latest>>
  /\ UNCHANGED <<chunkVars, searchVars, answerVars, workerVars,
                 backfillVars, pdfVars, cliVars>>

\* One iteration of "for chunk in chunks" of persist_chunks_to_db.
PersistChunk ==
  /\ ipc = "persist"
  /\ ck < Len(doc_chunks)
  /\ LET c == doc_chunks[ck + 1]
     IN tx' = InsertOnConflictDoNothing(tx,
                [id |-> c.id, pdf_id |-> pdf_id, page |-> c.page,
                 text |-> c.text, embedding |-> c.embedding])
  /\ ck' = ck + 1
  /\ UNCHANGED <<script, docs, ipc, pdf_id, doc_chunks, failed, next_uuid, runs,
                 before, used, latest, run_outcome>>
  /\ UNCHANGED <<chunkVars, searchVars, answerVars, workerVars,
                 backfillVars, pdfVars, cliVars>>

\* conn.commit() and conn.close() of persist_chunks_to_db
PersistCommit ==
  /\ ipc = "persist"
  /\ ck = Len(doc_chunks)
  /\ docs' = tx
  /\ ipc' = "idle"
  /\ runs' = runs + 1
  /\ latest' = IF script = "parse_json"
                 THEN [latest EXCEPT ![pdf_id] =
                         Some([k \in 1..Len(doc_chunks) |->
                                 [page |-> doc_chunks[k].page,
                                  text |-> doc_chunks[k].text]])]
                 ELSE latest
  /\ run_outcome' = "committed"
  /\ UNCHANGED <<script, tx, pdf_id, doc_chunks, ck, failed, next_uuid, before,
                 used>>
  /\ UNCHANGED <<chunkVars, searchVars, answerVars, workerVars,
                 backfillVars, pdfVars, cliVars>>

\* ----------------------------------------------- the callers and the LLM step
\* find_similar_tickets (search_tickets.py) and query_items (02-rag-example.py)
TopN == {"find_similar_tickets", "query_items"}

\* What leaves the function when a step inside it raises: query_items wraps
\* its body in try/except and returns f"Database query failed: ...",
\* find_similar_tickets lets the exception through.
OnException == IF api = "query_items" THEN "returned_str" ELSE "raised"

\* query_embedding = get_embedding_ollama(user_query), which raises when the
\* status is not 200
TopNEmbed ==
  /\ spc = "topn_embed"
  /\ \E reply \in Vectors \cup {Failure} :
       IF reply = Failure
         THEN /\ search_outcome' = OnException
              /\ spc' = "done"
              /\ UNCHANGED <<embed_ok, query_embedding>>
         ELSE /\ embed_ok' = TRUE
              /\ query_embedding' = reply
              /\ spc' = "topn_connect"
              /\ UNCHANGED search_outcome
  /\ UNCHANGED <<api, items, limit, threshold, subject_filter, distance_metric,
                 connections, executed, results>>
  /\ UNCHANGED <<chunkVars, ingestVars, answerVars, workerVars,
                 backfillVars, pdfVars, cliVars>>

\* conn = psycopg.connect(**DB_CONFIG)
TopNConnect ==
  /\ spc = "topn_connect"
  /\ \E up \in BOOLEAN :
       IF up
         THEN /\ connections' = connections + 1
              /\ spc' = "topn_execute"
              /\ UNCHANGED search_outcome
         ELSE /\ search_outcome' = OnException
              /\ spc' = "done"
              /\ UNCHANGED connections
  /\ UNCHANGED <<api, items, limit, threshold, subject_filter, distance_metric,
                 embed_ok, query_embedding, executed, results>>
  /\ UNCHANGED <<chunkVars, ingestVars, answerVars, workerVars,
                 backfillVars, pdfVars, cliVars>>

\* "... ORDER BY embedding <=> %s LIMIT %s", fetchall;
\* "if not results: return 'No relevant tickets found.'", else the list of rows
TopNExecute ==
  /\ spc = "topn_execute"
  /\ LET hits == Limited(Ordered(1..Len(items), "<=>", query_embedding), limit)
     IN IF limit < 0
          THEN search_outcome' = OnException /\ UNCHANGED results
          ELSE IF hits = <<>>
            THEN search_outcome' = "returned_str" /\ UNCHANGED results
            ELSE /\ search_outcome' = "returned"
                 /\ results' = [k \in 1..Len(hits) |->
                                  [name |-> items[hits[k]].name,
                                   subject |-> items[hits[k]].subject]]
  /\ executed' = Append(executed, query_embedding)
  /\ spc' = "done"
  /\ UNCHANGED <<api, items, limit, threshold, subject_filter, distance_metric,
                 embed_ok, query_embedding, connections>>
  /\ UNCHANGED <<chunkVars, ingestVars, answerVars, workerVars,
                 backfillVars, pdfVars, cliVars>>

\* The outcomes of the request to the language model: status 200 with a
\* completion, another status, or an exception of requests.post.
LlmReplies == {"ok", "status_error", "network_error"}

\* run_rag_query: "if no_context: context = [] else: context =
\* self.retrieve_context(...)"
RunRagQuery ==
  /\ pipeline = "run_rag_query"
  /\ apc = "start"
  /\ \E no_context \in BOOLEAN :
       IF no_context
         THEN spc' = "done" /\ search_outcome' = "returned"
         ELSE spc' = "embed" /\ UNCHANGED search_outcome
  /\ apc' = "llm"
  /\ UNCHANGED <<api, items, limit, threshold, subject_filter, distance_metric,
                 embed_ok, query_embedding, connections, executed, results>>
  /\ UNCHANGED <<pipeline, llm_reply, response, delivered, call_outcome>>
  /\ UNCHANGED <<chunkVars, ingestVars, workerVars, backfillVars,
                 pdfVars, cliVars>>

\* run_rag_query: build_prompt, query_llm and the RAGResult.  _query_openai
\* returns the completion, or a message for a status other than 200 and for
\* any exception.
RagAnswer ==
  /\ pipeline = "run_rag_query"
  /\ apc = "llm"
  /\ spc = "done"
  /\ \E reply \in LlmReplies :
       /\ llm_reply' = reply
       /\ response' = IF reply = "ok" THEN "answer" ELSE "note"
  /\ delivered' = TRUE
  /\ call_outcome' = "returned"
  /\ apc' = "done"
  /\ UNCHANGED pipeline
  /\ UNCHANGED <<chunkVars, searchVars, ingestVars, workerVars,
                 backfillVars, pdfVars, cliVars>>

\* z_final_pipeline.search: "if not user_issue: return ..., 400", else
\* find_similar_tickets(user_issue, top_n) is entered.
SearchRoute ==
  /\ pipeline = "final_pipeline"
  /\ apc = "start"
  /\ \E user_issue \in {"", "issue"} :
       IF user_issue = ""
         THEN /\ call_outcome' = "bad_request"
              /\ apc' = "done"
              /\ UNCHANGED spc
         ELSE /\ spc' = "topn_embed"
              /\ apc' = "llm"
              /\ UNCHANGED call_outcome
  /\ UNCHANGED <<api, items, limit, threshold, subject_filter, distance_metric,
                 embed_ok, query_embedding, connections, executed, results,
                 search_outcome>>
  /\ UNCHANGED <<pipeline, llm_reply, response, delivered>>
  /\ UNCHANGED <<chunkVars, ingestVars, workerVars, backfillVars,
                 pdfVars, cliVars>>

\* z_final_pipeline.search: enhance_with_openai(tickets, user_issue) of
\* enhance_response.py and the jsonify of the reply.  enhance_with_openai
\* returns "LLM skipped: ..." for no tickets or a string; otherwise
\* requests.post may raise, and response.json()["choices"] raises for a body
\* without choices.  search catches nothing.
Enhance ==
  /\ pipeline = "final_pipeline"
  /\ apc = "llm"
  /\ spc = "done"
  /\ IF search_outcome = "raised"
       THEN /\ call_outcome' = "raised"
            /\ UNCHANGED <<llm_reply, response, delivered>>
       ELSE IF search_outcome = "returned_str" \/ results = <<>>
         THEN /\ response' = "skipped"
              /\ delivered' = TRUE
              /\ call_outcome' = "returned"
              /\ UNCHANGED llm_reply
         ELSE \E reply \in LlmReplies :
                /\ llm_reply' = reply
                /\ IF reply = "ok"
                     THEN /\ response' = "answer"
                          /\ delivered' = TRUE
                          /\ call_outcome' = "returned"
                     ELSE /\ call_outcome' = "raised"
                          /\ UNCHANGED <<response, delivered>>
  /\ apc' = "done"
  /\ UNCHANGED pipeline
  /\ UNCHANGED <<chunkVars, searchVars, ingestVars, workerVars,
                 backfillVars, pdfVars, cliVars>>

\* 02-rag-example.py: items = query_items(user_query) is entered.
ExampleStart ==
  /\ pipeline = "rag_example"
  /\ apc = "start"
  /\ spc' = "topn_embed"
  /\ apc' = "llm"
  /\ UNCHANGED <<api, items, limit, threshold, subject_filter, distance_metric,
                 embed_ok, query_embedding, connections, executed, results,
                 search_outcome>>
  /\ UNCHANGED <<pipeline, llm_reply, response, delivered, call_outcome>>
  /\ UNCHANGED <<chunkVars, ingestVars, workerVars, backfillVars,
                 pdfVars, cliVars>>

\* 02-rag-example.py: print(items) and enhance_with_openai(items, user_query),
\* which returns f"Error: {status}, {text}" for a status other than 200 and
\* does not catch an exception of requests.post.
ExampleEnhance ==
  /\ pipeline = "rag_example"
  /\ apc = "llm"
  /\ spc = "done"
  /\ IF search_outcome = "returned_str" \/ results = <<>>
       THEN /\ response' = "skipped"
            /\ delivered' = TRUE
            /\ call_outcome' = "returned"
            /\ UNCHANGED llm_reply
       ELSE \E reply \in LlmReplies :
              /\ llm_reply' = reply
              /\ IF reply = "network_error"
                   THEN /\ call_outcome' = "raised"
                        /\ UNCHANGED <<response, delivered>>
                   ELSE /\ response' = IF reply = "ok" THEN "answer" ELSE "note"
                        /\ delivered' = TRUE
                        /\ call_outcome' = "returned"
  /\ apc' = "done"
  /\ UNCHANGED pipeline
  /\ UNCHANGED <<chunkVars, searchVars, ingestVars, workerVars,
                 backfillVars, pdfVars, cliVars>>

\* query_template.main: search_similar_text(QUERY_TEXT, PDF_ID, LIMIT) is
\* entered.
TemplateMain ==
  /\ pipeline = "query_template"
  /\ apc = "start"
  /\ spc' = "text_embed"
  /\ apc' = "display"
  /\ UNCHANGED <<api, items, limit, threshold, subject_filter, distance_metric,
                 embed_ok, query_embedding, connections, executed, results,
                 search_outcome>>
  /\ UNCHANGED <<pipeline, llm_reply, response, delivered, call_outcome>>
  /\ UNCHANGED <<chunkVars, ingestVars, workerVars, backfillVars,
                 pdfVars, cliVars>>

\* query_template.main: display_results(results, QUERY_TEXT), which prints
\* "No results found" for an empty list and the rows and results[0] otherwise;
\* "except Exception" prints the error of a failed search.
DisplayResults ==
  /\ pipeline = "query_template"
  /\ apc = "display"
  /\ spc = "done"
  /\ delivered' = (search_outcome = "returned" /\ results # <<>>)
  /\ call_outcome' = "returned"
  /\ apc' = "done"
  /\ UNCHANGED <<pipeline, llm_reply, response>>
  /\ UNCHANGED <<chunkVars, searchVars, ingestVars, workerVars,
                 backfillVars, pdfVars, cliVars>>

\* ------------------------------------------------ concurrent ingestions
\* Two processes run the ingest command of pdf_processor (or ingest_configured)
\* at the same time, each on its own connection to the one docs table.
Workers == {1, 2}

\* The row an earlier, committed ingestion of source s left in docs, from the
\* document "d0" stored then.
OldRow(s) ==
  [id |-> IF s = "alice_in_wonderland" THEN 1 ELSE 2, pdf_id |-> s,
   page |-> 1, text |-> <<"d0", 1>>, embedding |-> <<-3, 0>>]

\* The predicate the DELETE would have without its WHERE clause.
AnyPdfId(table, id) == table
\* WHERE pdf_id = %s
WherePdfId(table, id) == {r \in table : r.pdf_id = id}

\* A DELETE that would look at the table again once it has its row locks.
LatestCommitted(snap, table) == table
\* READ COMMITTED: a statement sees the rows committed before it began; of
\* those, the ones a transaction it waited for has removed are skipped.
Deletable(snap, table) == snap \cap table

\* The rows another open transaction holds a lock on.
LockedByOther(w) ==
  UNION {wdel[o] : o \in {o \in Workers : o # w /\ wpc[o] \in {"delete", "loop"}}}

\* cur.execute("DELETE FROM docs WHERE pdf_id = %s", (args.id,)) begins: the
\* "with conn" block opens the transaction and the statement takes its snapshot.
BeginDelete ==
  /\ \E w \in Workers :
       /\ wpc[w] = "clear"
       /\ wsnap' = [wsnap EXCEPT ![w] = store]
       /\ wpc' = [wpc EXCEPT ![w] = "delete"]
  /\ UNCHANGED <<store, wsrc, wchunks, wk, wdel, wins, wuuid>>
  /\ UNCHANGED <<chunkVars, searchVars, ingestVars, answerVars,
                 backfillVars, pdfVars, cliVars>>

\* The DELETE returns: it waits while a row it wants is locked by another
\* open transaction, then removes what is left of its rows.
FinishDelete ==
  /\ \E w \in Workers :
       /\ wpc[w] = "delete"
       /\ LET wanted == WherePdfId(wsnap[w], wsrc[w])
          IN /\ {r.id : r \in wanted} \cap LockedByOther(w) = {}
             /\ wdel' = [wdel EXCEPT ![w] =
                           {r.id : r \in WherePdfId(Deletable(wsnap[w], store),
                                                    wsrc[w])}]
       /\ wpc' = [wpc EXCEPT ![w] = "loop"]
  /\ UNCHANGED <<store, wsrc, wchunks, wk, wsnap, wins, wuuid>>
  /\ UNCHANGED <<chunkVars, searchVars, ingestVars, answerVars,
                 backfillVars, pdfVars, cliVars>>

\* One iteration of "for i, (page_num, chunk_text) in enumerate(chunks, 1)":
\* get_embedding, then INSERT with a new uuid4.  get_embedding calls
\* sys.exit(1) when the request fails; SystemExit leaves the "with conn" block,
\* which rolls the transaction back.
WorkerChunk ==
  /\ \E w \in Workers :
       /\ wpc[w] = "loop"
       /\ wk[w] < Len(wchunks[w])
       /\ LET c == wchunks[w][wk[w] + 1]
          IN \E reply \in {Embedding(c.text), Failure} :
               IF reply = Failure
                 THEN /\ wpc' = [wpc EXCEPT ![w] = "exit"]
                      /\ wdel' = [wdel EXCEPT ![w] = {}]
                      /\ wins' = [wins EXCEPT ![w] = {}]
                      /\ UNCHANGED <<wk, wuuid>>
                 ELSE /\ wins' = [wins EXCEPT ![w] =
                                    Insert(wins[w],
                                           [id |-> wuuid, pdf_id |-> wsrc[w],
                                            page |-> c.page, text |-> c.text,
                                            embedding |-> reply])]
                      /\ wuuid' = wuuid + 1
                      /\ wk' = [wk EXCEPT ![w] = wk[w] + 1]
                      /\ UNCHANGED <<wpc, wdel>>
  /\ UNCHANGED <<store, wsrc, wchunks, wsnap>>
  /\ UNCHANGED <<chunkVars, searchVars, ingestVars, answerVars,
                 backfillVars, pdfVars, cliVars>>

\* The run is interrupted between two chunks (KeyboardInterrupt, or the process
\* is killed): the "with conn" block is left with an exception, or the server
\* loses the connection, and the transaction is rolled back.
Interrupt ==
  /\ \E w \in Workers :
       /\ wpc[w] = "loop"
       /\ wk[w] < Len(wchunks[w])
       /\ wpc' = [wpc EXCEPT ![w] = "aborted"]
       /\ wdel' = [wdel EXCEPT ![w] = {}]
       /\ wins' = [wins EXCEPT ![w] = {}]
  /\ UNCHANGED <<store, wsrc, wchunks, wk, wsnap, wuuid>>
  /\ UNCHANGED <<chunkVars, searchVars, ingestVars, answerVars,
                 backfillVars, pdfVars, cliVars>>

\* The "with conn" block is left without an exception: commit.
WorkerCommit ==
  /\ \E w \in Workers :
       /\ wpc[w] = "loop"
       /\ wk[w] = Len(wchunks[w])
       /\ store' = {r \in store : r.id \notin wdel[w]} \cup wins[w]
       /\ wpc' = [wpc EXCEPT ![w] = "committed"]
  /\ UNCHANGED <<wsrc, wchunks, wk, wsnap, wdel, wins, wuuid>>
  /\ UNCHANGED <<chunkVars, searchVars, ingestVars, answerVars,
                 backfillVars, pdfVars, cliVars>>

\* ------------------------------------------------------ embedding backfill
\* add_embeddings.py, run from the command line, one run after the other.
\* The vector the embedding model gives the issue_description of ticket t.
TicketEmbedding(t) == IF t % 2 = 1 THEN <<3, 0>> ELSE <<0, 4>>

\* A SELECT that would leave out the WHERE clause.
EveryTicket(table) == DOMAIN table
\* SELECT id, issue_description FROM support_tickets WHERE embedding IS NULL
EmbeddingIsNull(table) == {t \in DOMAIN table : table[t] = None}

\* The orders fetchall may give the rows of set S in.
Orders(S) ==
  {f \in [1..Cardinality(S) -> S] : \A i, j \in DOMAIN f : f[i] = f[j] => i = j}

\* cursor.execute(SELECT ...), tickets = cursor.fetchall();
\* "if not tickets: return".
FetchMissing ==
  /\ bpc = "idle"
  /\ bruns < MaxBackfills
  /\ \E rows \in Orders(EmbeddingIsNull(support_tickets)) :
       /\ fetched' = rows
       /\ IF rows = <<>>
            THEN /\ bpc' = "idle"
                 /\ bruns' = bruns + 1
            ELSE /\ bpc' = "loop"
                 /\ UNCHANGED bruns
  /\ bi' = 0
  /\ btx' = support_tickets
  /\ UNCHANGED <<support_tickets, updated>>
  /\ UNCHANGED <<chunkVars, searchVars, ingestVars, answerVars,
                 workerVars, pdfVars, cliVars>>

\* One iteration of "for ticket_id, issue_description in tickets": the
\* embedding request raises on a status other than 200, "except Exception"
\* prints and goes on to the next ticket.
BackfillTicket ==
  /\ bpc = "loop"
  /\ bi < Len(fetched)
  /\ LET t == fetched[bi + 1]
     IN \E reply \in {TicketEmbedding(t), Failure} :
          IF reply = Failure
            THEN UNCHANGED <<btx, updated>>
            ELSE /\ btx' = [btx EXCEPT ![t] = Some(reply)]  \* update_sql
                 /\ updated' = Append(updated, t)
  /\ bi' = bi + 1
  /\ UNCHANGED <<support_tickets, bpc, fetched, bruns>>
  /\ UNCHANGED <<chunkVars, searchVars, ingestVars, answerVars,
                 workerVars, pdfVars, cliVars>>

\* conn.commit(), cursor.close(), conn.close()
BackfillCommit ==
  /\ bpc = "loop"
  /\ bi = Len(fetched)
  /\ support_tickets' = btx
  /\ bpc' = "idle"
  /\ bruns' = bruns + 1
  /\ UNCHANGED <<btx, fetched, bi, updated>>
  /\ UNCHANGED <<chunkVars, searchVars, ingestVars, answerVars,
                 workerVars, pdfVars, cliVars>>

\* ------------------------------------------- parse_pdf and its placeholders
Digits == <<"1", "2", "3", "4", "5", "6", "7", "8", "9">>

\* f"{{{{ TABLE_PAGE_{page_num}_{i} }}}}": "T" stands for TABLE_PAGE_, the
\* digit for {page_num}_{i}.
TablePlaceholder(i) == <<"{", " ", "T", Digits[i], " ", "}">>

\* f"{{{{ PAGE_IMAGE_{page_num} }}}}": "I" stands for PAGE_IMAGE_{page_num}.
ImagePlaceholder == <<"{", " ", "I", " ", "}">>

\* str(obj["content"]) of table i, a list of rows.
TableContent(i) == <<"[", Digits[i], "]">>

\* p in s
Contains(s, p) ==
  \E i \in 1..(Len(s) - Len(p) + 1) : SubSeq(s, i, i + Len(p) - 1) = p

\* s.replace(old, new) for a non-empty old
RECURSIVE Replace(_, _, _)
Replace(s, old, new) ==
  IF Len(s) < Len(old) THEN s
  ELSE IF SubSeq(s, 1, Len(old)) = old
         THEN new \o Replace(SubSeq(s, Len(old) + 1, Len(s)), old, new)
         ELSE <<Head(s)>> \o Replace(Tail(s), old, new)

\* "for i, table in enumerate(tables, start=1): text += f"\n\n{placeholder}""
RECURSIVE AppendTables(_, _, _)
AppendTables(s, i, n) ==
  IF i > n THEN s
  ELSE AppendTables(s \o <<"\n", "\n">> \o TablePlaceholder(i), i + 1, n)

\* replace_objects_with_placeholders, the table objects of the page
RECURSIVE ReplaceTables(_, _, _)
ReplaceTables(s, i, n) ==
  IF i > n THEN s
  ELSE ReplaceTables(Replace(s, TableContent(i), TablePlaceholder(i)), i + 1, n)

\* document_objects holds the page image, if any, before the tables of the
\* page; its placeholder is appended "if obj["placeholder"] not in text".
replace_objects_with_placeholders(s, n, image) ==
  ReplaceTables(IF image /\ ~Contains(s, ImagePlaceholder)
                  THEN s \o <<"\n", "\n">> \o ImagePlaceholder
                  ELSE s,
                1, n)

\* parse_pdf, one page: text = page.extract_text() or "", and the placeholder
\* of every table is appended.
ParsePage ==
  /\ pc = "parse"
  /\ text' = AppendTables(text, 1, tables)
  /\ pc' = "replace"
  /\ UNCHANGED <<impl, pages, sentences, page_number, tokens, overlap, page_i,
                 words_with_pages, start, pos, paragraphs, current_chunk,
                 current_length, chunks, outcome>>
  /\ UNCHANGED pdfVars
  /\ UNCHANGED <<searchVars, ingestVars, answerVars, workerVars,
                 backfillVars, cliVars>>

\* The main workflow: clean_text = replace_objects_with_placeholders(
\* obj["content"], document_objects, obj["page"]) is handed to chunk_text.
ReplaceObjects ==
  /\ pc = "replace"
  /\ text' = replace_objects_with_placeholders(text, tables, diagram)
  /\ pc' = "presplit"
  /\ UNCHANGED <<impl, pages, sentences, page_number, tokens, overlap, page_i,
                 words_with_pages, start, pos, paragraphs, current_chunk,
                 current_length, chunks, outcome>>
  /\ UNCHANGED pdfVars
  /\ UNCHANGED <<searchVars, ingestVars, answerVars, workerVars,
                 backfillVars, cliVars>>

\* ------------------------------------------- the ingest command (pdf_processor)
\* DEFAULT_CONFIG, or what config.json gives
Configs == [chunk_size : {2, 3}, chunk_overlap : {0, 1}]

\* An option of type=int: None when it is not given.
IntOption(values) == {None} \cup {Some(n) : n \in values}

\* "option or configured": None and 0 are false.
Or(option, configured) ==
  IF option = None \/ option[1] = 0 THEN configured ELSE option[1]

\* ingest_pdf: chunks_from_pdf(args.file, args.chunk_size or
\* config['chunk_size'], args.overlap or config['chunk_overlap']) is entered.
IngestPdf ==
  /\ pc = "ingest_pdf"
  /\ command = "ingest"
  /\ tokens' = Or(args.chunk_size, config.chunk_size)
  /\ overlap' = Or(args.overlap, config.chunk_overlap)
  /\ pc' = "extract"
  /\ UNCHANGED <<impl, pages, sentences, text, page_number, page_i,
                 words_with_pages, start, pos, paragraphs, current_chunk,
                 current_length, chunks, outcome>>
  /\ UNCHANGED cliVars
  /\ UNCHANGED <<searchVars, ingestVars, answerVars, workerVars,
                 backfillVars, pdfVars>>

\* -------------------------------------------------------------------- runs
Fresh ==
  /\ page_i = 0 /\ words_with_pages = <<>> /\ start = 0 /\ pos = 0
  /\ paragraphs = <<>> /\ current_chunk = <<>> /\ current_length = 0
  /\ chunks = <<>> /\ outcome = "running"

InitWordWindow ==
  /\ impl \in WordWindow
  /\ pages \in PdfDocuments
  /\ tokens \in 1..MaxChunkSize
  /\ overlap \in 0..MaxOverlap
  /\ sentences = <<>> /\ text = <<>> /\ page_number = NoPage
  /\ pc = "extract"
  /\ Fresh

InitSentence ==
  /\ impl = "sentence"
  /\ sentences \in SentenceLists
  /\ tokens \in 1..MaxChunkSize
  /\ overlap \in 0..MaxOverlap
  /\ pages = <<>> /\ text = <<>> /\ page_number = NoPage
  /\ pc = "sentences"
  /\ Fresh

InitStructural ==
  /\ impl = "structural"
  /\ text \in PageTexts
  /\ page_number \in 1..MaxPages
  /\ pages = <<>> /\ sentences = <<>> /\ tokens = 0 /\ overlap = 0
  /\ pc = "presplit"
  /\ Fresh

\* No chunker runs.
NoChunker ==
  /\ impl = "none" /\ pages = <<>> /\ sentences = <<>> /\ text = <<>>
  /\ page_number = NoPage /\ tokens = 0 /\ overlap = 0 /\ pc = "off"
  /\ Fresh

FreshCall ==
  /\ embed_ok = FALSE /\ query_embedding = None /\ connections = 0
  /\ executed = <<>> /\ results = <<>> /\ search_outcome = "running"

\* No retrieval runs.
NoRetrieval ==
  /\ api = "none" /\ items = <<>> /\ limit = 0 /\ threshold = None
  /\ subject_filter = NoString /\ distance_metric = "cosine" /\ spc = "off"
  /\ FreshCall

InitAssistant ==
  /\ api \in Assistants
  /\ items \in Stores
  /\ limit \in -1..MaxLimit
  /\ threshold \in {None, Some(Fixed(0)), Some(Fixed(2))}
  /\ subject_filter \in {NoString, "", "physics"}
  /\ distance_metric \in
       IF api = "search_similar"
         THEN {"cosine", "euclidean", "inner_product", "manhattan"}
         ELSE {"cosine"}
  /\ spc = "embed"
  /\ FreshCall

InitScript ==
  /\ api = "query_script"
  /\ items \in Stores
  /\ limit = 1 /\ threshold = None /\ subject_filter = NoString
  /\ distance_metric = "euclidean"
  /\ spc = "script_connect"
  /\ FreshCall

InitText ==
  /\ api = "search_similar_text"
  /\ items \in Stores
  /\ limit \in -1..MaxLimit
  /\ threshold = None
  /\ subject_filter \in Subjects
  /\ distance_metric = "cosine"
  /\ spc = "text_embed"
  /\ FreshCall

ChunkNext ==
  \/ ExtractPage
  \/ BeginChunking
  \/ YieldChunk
  \/ AppendChunk
  \/ EndChunking
  \/ TakeSentence
  \/ ReturnSentenceChunks
  \/ PreSplit
  \/ TakeParagraph
  \/ ReturnStructuralChunks

SearchNext ==
  \/ EmbedQuery
  \/ Connect
  \/ ExecuteQuery
  \/ ScriptConnect
  \/ ScriptEmbed
  \/ ScriptExecute
  \/ TextEmbed
  \/ TextConnect
  \/ TextExecute

\* No ingestion runs.
NoIngest ==
  /\ script = "none" /\ docs = {} /\ tx = {} /\ ipc = "off"
  /\ pdf_id = "alice_in_wonderland" /\ doc_chunks = <<>> /\ ck = 0
  /\ failed = {} /\ next_uuid = 1 /\ runs = 0 /\ before = {} /\ used = {}
  /\ latest = [s \in Sources |-> None] /\ run_outcome = "running"

\* An empty docs table and no connection open.
InitStore ==
  /\ script = "none" /\ docs = {} /\ tx = {} /\ ipc = "idle"
  /\ pdf_id = "alice_in_wonderland" /\ doc_chunks = <<>> /\ ck = 0
  /\ failed = {} /\ next_uuid = 1 /\ runs = 0 /\ before = {} /\ used = {}
  /\ latest = [s \in Sources |-> None] /\ run_outcome = "running"

IngestNext ==
  \/ BeginIngest
  \/ TruncateDocs
  \/ DeleteExisting
  \/ IngestChunk
  \/ ProcessorChunk
  \/ TemplateChunk
  \/ Commit
  \/ BeginParse
  \/ BeginPersistAgain
  \/ PersistChunk
  \/ PersistCommit

FreshCaller ==
  /\ llm_reply = "none" /\ response = "none" /\ delivered = FALSE
  /\ call_outcome = "running"

\* No caller runs.
NoCaller == pipeline = "none" /\ apc = "off" /\ FreshCaller

\* run_rag_query hands its arguments to retrieve_context.
InitRag ==
  /\ pipeline = "run_rag_query"
  /\ api = "retrieve_context"
  /\ items \in Stores
  /\ limit \in -1..MaxLimit
  /\ threshold \in {None, Some(Fixed(0)), Some(Fixed(2))}
  /\ subject_filter \in {NoString, "physics"}
  /\ distance_metric = "cosine"

\* The callers of find_similar_tickets and query_items hand them top_n.
InitTopN ==
  /\ \/ pipeline = "final_pipeline" /\ api = "find_similar_tickets"
     \/ pipeline = "rag_example" /\ api = "query_items"
  /\ items \in Stores
  /\ limit \in -1..MaxLimit
  /\ threshold = None /\ subject_filter = NoString
  /\ distance_metric = "cosine"

InitTemplate ==
  /\ pipeline = "query_template"
  /\ api = "search_similar_text"
  /\ items \in Stores
  /\ limit \in -1..MaxLimit
  /\ threshold = None
  /\ subject_filter \in Subjects
  /\ distance_metric = "cosine"

AnswerNext ==
  \/ RunRagQuery
  \/ EmbedQuery
  \/ Connect
  \/ ExecuteQuery
  \/ RagAnswer
  \/ SearchRoute
  \/ ExampleStart
  \/ TopNEmbed
  \/ TopNConnect
  \/ TopNExecute
  \/ Enhance
  \/ ExampleEnhance
  \/ TemplateMain
  \/ TextEmbed
  \/ TextConnect
  \/ TextExecute
  \/ DisplayResults

\* No concurrent ingestion runs.
NoWorkers ==
  /\ store = {}
  /\ wpc = [w \in Workers |-> "off"]
  /\ wsrc = [w \in Workers |-> "alice_in_wonderland"]
  /\ wchunks = [w \in Workers |-> <<>>]
  /\ wk = [w \in Workers |-> 0]
  /\ wsnap = [w \in Workers |-> {}]
  /\ wdel = [w \in Workers |-> {}]
  /\ wins = [w \in Workers |-> {}]
  /\ wuuid = 3

\* No backfill runs.
NoBackfill ==
  /\ support_tickets = <<>> /\ btx = <<>> /\ bpc = "off" /\ fetched = <<>>
  /\ bi = 0 /\ updated = <<>> /\ bruns = 0

\* Every page gives its text, and no page is parsed for tables.
PlainPdf == unreadable = {} /\ tables = 0 /\ diagram = FALSE

\* No command line is parsed.
NoCommand ==
  /\ command = "none"
  /\ args = [chunk_size |-> None, overlap |-> None]
  /\ config = [chunk_size |-> 3, chunk_overlap |-> 1]

\* The chunkers.
Init ==
  /\ InitWordWindow \/ InitSentence \/ InitStructural
  /\ PlainPdf /\ NoCommand
  /\ NoRetrieval /\ NoIngest /\ NoCaller /\ NoWorkers /\ NoBackfill
Next == ChunkNext
Spec == Init /\ [][Next]_vars

\* The retrieval calls.
InitSearch ==
  /\ InitAssistant \/ InitScript \/ InitText
  /\ NoChunker /\ PlainPdf /\ NoCommand
  /\ NoIngest /\ NoCaller /\ NoWorkers /\ NoBackfill
NextSearch == SearchNext
SpecSearch == InitSearch /\ [][NextSearch]_vars

\* The ingestion runs, one after the other, over one docs table.
InitIngest ==
  /\ InitStore
  /\ NoChunker /\ PlainPdf /\ NoCommand
  /\ NoRetrieval /\ NoCaller /\ NoWorkers /\ NoBackfill
NextIngest == IngestNext
SpecIngest == InitIngest /\ [][NextIngest]_vars

\* The callers: a retrieval function and what its caller does with the result.
InitAnswer ==
  /\ InitRag \/ InitTopN \/ InitTemplate
  /\ spc = "off" /\ FreshCall
  /\ apc = "start" /\ FreshCaller
  /\ NoChunker /\ PlainPdf /\ NoCommand
  /\ NoIngest /\ NoWorkers /\ NoBackfill
NextAnswer == AnswerNext
SpecAnswer == InitAnswer /\ [][NextAnswer]_vars

\* Two ingestions at the same time over one docs table: both processes have
\* read their PDF and are about to enter "with conn"; docs holds what earlier
\* ingestions committed.
InitConcurrent ==
  /\ \E old \in SUBSET Sources : store = {OldRow(s) : s \in old}
  /\ wpc = [w \in Workers |-> "clear"]
  /\ wsrc \in [Workers -> Sources]
  /\ \E doc \in [Workers -> Documents], n \in [Workers -> 0..MaxDocChunks] :
       wchunks = [w \in Workers |-> ChunksOf(doc[w], n[w])]
  /\ wk = [w \in Workers |-> 0]
  /\ wsnap = [w \in Workers |-> {}]
  /\ wdel = [w \in Workers |-> {}]
  /\ wins = [w \in Workers |-> {}]
  /\ wuuid = 3
  /\ NoChunker /\ PlainPdf /\ NoCommand
  /\ NoRetrieval /\ NoIngest /\ NoCaller /\ NoBackfill
NextConcurrent ==
  \/ BeginDelete
  \/ FinishDelete
  \/ WorkerChunk
  \/ Interrupt
  \/ WorkerCommit
SpecConcurrent == InitConcurrent /\ [][NextConcurrent]_vars

\* The backfill runs over one support_tickets table, in which some tickets
\* have an embedding and some have NULL.
InitBackfill ==
  /\ support_tickets \in [1..MaxTickets -> {None, Some(<<-3, 0>>)}]
  /\ btx = support_tickets
  /\ bpc = "idle" /\ fetched = <<>> /\ bi = 0 /\ updated = <<>> /\ bruns = 0
  /\ NoChunker /\ PlainPdf /\ NoCommand
  /\ NoRetrieval /\ NoIngest /\ NoCaller /\ NoWorkers
NextBackfill ==
  \/ FetchMissing
  \/ BackfillTicket
  \/ BackfillCommit
SpecBackfill == InitBackfill /\ [][NextBackfill]_vars

\* The workflow of 01a for one page, with its text, its tables and its
\* diagram: parse, placeholders, chunk_text.
InitParse ==
  /\ impl = "structural"
  /\ text \in PageTexts
  /\ page_number \in 1..MaxPages
  /\ pages = <<>> /\ sentences = <<>> /\ tokens = 0 /\ overlap = 0
  /\ pc = "parse"
  /\ Fresh
  /\ unreadable = {}
  /\ tables \in 0..MaxTables
  /\ diagram \in BOOLEAN
  /\ NoCommand
  /\ NoRetrieval /\ NoIngest /\ NoCaller /\ NoWorkers /\ NoBackfill
NextParse ==
  \/ ParsePage
  \/ ReplaceObjects
  \/ PreSplit
  \/ TakeParagraph
  \/ ReturnStructuralChunks
SpecParse == InitParse /\ [][NextParse]_vars

\* chunks_from_pdf over PDFs some pages of which give no text.
InitPdf ==
  /\ impl \in WordWindow
  /\ pages \in PdfDocuments
  /\ tokens \in 1..MaxChunkSize
  /\ overlap \in 0..MaxOverlap
  /\ sentences = <<>> /\ text = <<>> /\ page_number = NoPage
  /\ pc = "extract"
  /\ Fresh
  /\ unreadable \in SUBSET {i \in 1..Len(pages) : pages[i] = <<>>}
  /\ tables = 0 /\ diagram = FALSE
  /\ NoCommand
  /\ NoRetrieval /\ NoIngest /\ NoCaller /\ NoWorkers /\ NoBackfill
NextPdf ==
  \/ ExtractPage
  \/ BeginChunking
  \/ YieldChunk
  \/ AppendChunk
  \/ EndChunking
SpecPdf == InitPdf /\ [][NextPdf]_vars

\* pdf_processor.chunks_from_pdf (and the same function of ingest_configured)
\* with any integers for chunk_size and overlap.  The interpreter runs the one
\* thread of the function whenever it has a step to take.
InitLoop ==
  /\ impl = "pdf_processor"
  /\ pages \in PdfDocuments
  /\ tokens \in -MaxChunkSize..MaxChunkSize
  /\ overlap \in -MaxOverlap..MaxOverlap
  /\ sentences = <<>> /\ text = <<>> /\ page_number = NoPage
  /\ pc = "extract"
  /\ Fresh
  /\ PlainPdf /\ NoCommand
  /\ NoRetrieval /\ NoIngest /\ NoCaller /\ NoWorkers /\ NoBackfill
NextLoop ==
  \/ ExtractPage
  \/ BeginChunking
  \/ AppendChunk
  \/ EndChunking
SpecLoop == InitLoop /\ [][NextLoop]_vars /\ WF_vars(NextLoop)

\* The ingest command of pdf_processor, up to the chunks: parse_args() gave
\* the command, with --chunk-size and --overlap given or not, and ingest_pdf
\* has loaded the configuration.
InitCli ==
  /\ command = "ingest"
  /\ args \in [chunk_size : IntOption(0..MaxChunkSize),
               overlap : IntOption(0..MaxOverlap)]
  /\ config \in Configs
  /\ impl = "pdf_processor"
  /\ pages \in PdfDocuments
  /\ tokens = 0 /\ overlap = 0
  /\ sentences = <<>> /\ text = <<>> /\ page_number = NoPage
  /\ pc = "ingest_pdf"
  /\ Fresh
  /\ PlainPdf
  /\ NoRetrieval /\ NoIngest /\ NoCaller /\ NoWorkers /\ NoBackfill
NextCli ==
  \/ IngestPdf
  \/ ExtractPage
  \/ BeginChunking
  \/ AppendChunk
  \/ EndChunking
SpecCli == InitCli /\ [][NextCli]_vars

\* ------------------------------------------------------------------ claims
RECURSIVE Flatten(_)
Flatten(ss) == IF ss = <<>> THEN <<>> ELSE Head(ss) \o Flatten(Tail(ss))

\* The words of the document in reading order, and their number N.
DocumentWords == Flatten([i \in 1..Len(pages) |-> split(pages[i])])

ValidConfig == tokens >= 1 /\ 0 <= overlap /\ overlap < tokens

CeilDiv(a, b) == (a + b - 1) \div b

\* The page a word of the document stands on.
PageOfWord(w) ==
  CHOOSE i \in 1..Len(pages) : \E k \in 1..Len(split(pages[i])) : split(pages[i])[k] = w

\* C1: for a valid (chunk_size, overlap), a finished word-window run over N
\* tokens has emitted ceil(max(N - overlap, 1) / (chunk_size - overlap)) chunks,
\* and none when N = 0.
C1_ChunkCount ==
  (impl \in WordWindow /\ pc = "done" /\ ValidConfig) =>
    Len(chunks) =
      IF Len(DocumentWords) = 0 THEN 0
      ELSE CeilDiv(Max(Len(DocumentWords) - overlap, 1), tokens - overlap)

\* C2: the tokens a b c d e on pages 1 1 2 2 3, chunk_size 3 and overlap 1, give
\* exactly (1, "a b c"), (2, "c d e").
C2_Scenario ==
  (impl \in WordWindow /\ pc = "done" /\ tokens = 3 /\ overlap = 1
     /\ pages = <<<<"a", " ", "b">>, <<"c", " ", "d">>, <<"e">>>>) =>
    chunks = <<[page |-> 1, text |-> <<"a", " ", "b", " ", "c">>],
               [page |-> 2, text |-> <<"c", " ", "d", " ", "e">>]>>

\* C3: every chunk a word-window chunker has emitted carries the page of the
\* first token of its window, which is the earliest page any of its tokens is on.
C3_PageOfFirstToken ==
  impl \in WordWindow =>
    \A k \in 1..Len(chunks) :
      LET ws == split(chunks[k].text)
      IN /\ ws # <<>>
         /\ chunks[k].page = PageOfWord(ws[1])
         /\ \A j \in 1..Len(ws) : chunks[k].page <= PageOfWord(ws[j])

\* A second or later chunk whose window runs over a page break has been emitted.
C3_Witness ==
  /\ impl \in WordWindow
  /\ \E k \in 2..Len(chunks) :
       LET ws == split(chunks[k].text)
       IN PageOfWord(ws[1]) < PageOfWord(ws[Len(ws)])

\* The first chunk whole, every later chunk without its first overlap tokens.
Reconstructed ==
  Flatten([k \in 1..Len(chunks) |->
             LET ws == split(chunks[k].text)
             IN IF k = 1 THEN ws ELSE SubSeq(ws, overlap + 1, Len(ws))])

\* C4: for a valid (chunk_size, overlap), the chunks of a finished word-window
\* run, with the overlapped prefix of every chunk after the first removed, are
\* the document's tokens: none lost, duplicated or reordered.
C4_RoundTrip ==
  (impl \in WordWindow /\ pc = "done" /\ ValidConfig) =>
    Reconstructed = DocumentWords

\* A finished run with overlap whose last chunk is no longer than the overlap.
C4_Witness ==
  /\ impl \in WordWindow /\ pc = "done" /\ ValidConfig
  /\ overlap >= 1
  /\ Len(chunks) >= 3
  /\ Len(split(chunks[Len(chunks)].text)) <= overlap

\* An error raised to the caller: the configuration error the chunker should
\* raise, or the ValueError range() raises for a step of zero.
Rejected == outcome \in {"ConfigurationError", "ValueError"}

\* C5: a word-window run with chunk_size <= overlap ends rejected with an error,
\* having read no page and emitted no chunk.
C5_ConfigRejected ==
  (impl \in WordWindow /\ tokens <= overlap /\ pc = "done") =>
    /\ Rejected
    /\ page_i = 0
    /\ chunks = <<>>

\* The rows a search with an inclusive threshold may return: those passing the
\* subject filter whose distance to the query is at most the threshold.
AtOrWithinThreshold ==
  {i \in 1..Len(items) :
     /\ Truthy(subject_filter) => items[i].subject = subject_filter
     /\ Distance(Operator, items[i].embedding, query_embedding) <= threshold[1]}

\* The store answered the call's query.
Answered == spc = "done" /\ Len(executed) = 1 /\ limit >= 0

\* C6: a search with a threshold returns, up to limit, every row whose distance
\* is at most the threshold, the rows exactly at the threshold included, and no
\* other row.
C6_ThresholdInclusive ==
  (api \in Assistants /\ Answered /\ threshold # None) =>
    /\ Len(results) = Min(limit, Cardinality(AtOrWithinThreshold))
    /\ \A k \in 1..Len(results) : results[k].name \in AtOrWithinThreshold

\* C7: a retrieval whose embedding call failed does not return the empty list a
\* search without matches returns, and has sent no query to the store.
C7_EmbeddingFailureSurfaced ==
  (api \in Assistants /\ spc = "done" /\ ~embed_ok) =>
    /\ ~(search_outcome = "returned" /\ results = <<>>)
    /\ executed = <<>>

\* C8: every query vector the query script sends to the store was returned by a
\* successful embedding call and is not the zero vector.
C8_NoZeroQueryVector ==
  api = "query_script" =>
    \A k \in 1..Len(executed) : embed_ok /\ executed[k] # ZeroVector

\* C9: a search with limit <= 0 opens no connection, executes no query and
\* returns the empty list.
C9_NoRoundTripForEmptyLimit ==
  (api \in Assistants /\ limit <= 0) =>
    /\ connections = 0
    /\ executed = <<>>
    /\ spc = "done" => (search_outcome = "returned" /\ results = <<>>)

\* C10: no chunker emits a chunk whose text is empty.
C10_NoEmptyChunk == \A k \in 1..Len(chunks) : chunks[k].text # <<>>

\* The number of words of chunk k.
ChunkWords(k) == Len(split(chunks[k].text))

\* C11: every chunk a word-window chunker has emitted has at most chunk_size
\* words, and so has every chunk of the sentence-aware chunk_text when no
\* sentence of its input is longer than chunk_size words, whatever the overlap.
C11_ChunkWithinBudget ==
  \/ impl \in WordWindow
  \/ /\ impl = "sentence"
     /\ \A i \in 1..Len(sentences) : Len(split(sentences[i])) <= tokens
  => \A k \in 1..Len(chunks) : ChunkWords(k) <= tokens

\* The committed row of chunk k of the run, with the given embedding.
Stored(k, embedding) ==
  \E r \in docs :
    /\ r.pdf_id = pdf_id
    /\ r.page = doc_chunks[k].page
    /\ r.text = doc_chunks[k].text
    /\ r.embedding = embedding

\* C12: a run of ingest.py, pdf_processor or ingest_template in which the
\* embedding call failed for some chunk still ends committed, with every such
\* chunk stored under the zero vector and every other chunk of the document
\* stored under its embedding.
C12_FailedChunkKeepsIngestion ==
  (script \in WithBlock /\ ipc = "idle" /\ failed # {}) =>
    /\ run_outcome = "committed"
    /\ \A k \in 1..Len(doc_chunks) :
         Stored(k, IF k \in failed THEN ZeroVector
                   ELSE Embedding(doc_chunks[k].text))

\* The inner product of the query with the row a result names.
InnerProductOf(r) == Dot(items[r.name].embedding, query_embedding)

\* C13: under cosine, euclidean and inner_product the list search_similar
\* returns is in non-decreasing order of the similarity it reports; under
\* inner_product the reported similarity is the negated inner product, and a
\* row with a larger inner product with the query comes earlier.
C13_RankedByReportedScore ==
  (api = "search_similar" /\ spc = "done"
     /\ distance_metric \in {"cosine", "euclidean", "inner_product"}) =>
    /\ \A j, k \in 1..Len(results) :
         j < k => results[j].similarity <= results[k].similarity
    /\ distance_metric = "inner_product" =>
         /\ \A k \in 1..Len(results) :
              results[k].similarity = Fixed(0 - InnerProductOf(results[k]))
         /\ \A j, k \in 1..Len(results) :
              InnerProductOf(results[j]) > InnerProductOf(results[k]) => j < k

\* An inner_product search has returned two rows of different inner products
\* with the query, one of them positive.
C13_Witness ==
  /\ api = "search_similar" /\ spc = "done"
  /\ distance_metric = "inner_product"
  /\ Len(results) = 2
  /\ InnerProductOf(results[1]) > 0
  /\ InnerProductOf(results[1]) > InnerProductOf(results[2])

\* The distance of row i to the query under the operator of the call.
QueryDistance(i) == Distance(Operator, items[i].embedding, query_embedding)

Returned(i) == \E k \in 1..Len(results) : results[k].name = i

\* C14: with the threshold given or not and the subject filter given or not,
\* every row search_similar or retrieve_context returns lies within the given
\* threshold and has the given subject, and a row left out while the limit is
\* not reached fails a filter that was given: an omitted filter excludes no row.
C14_FiltersBound ==
  (api \in Assistants /\ Answered) =>
    /\ \A i \in 1..Len(items) :
         Returned(i) =>
           /\ threshold # None => QueryDistance(i) <= threshold[1]
           /\ Truthy(subject_filter) => items[i].subject = subject_filter
    /\ \A i \in 1..Len(items) :
         (~Returned(i) /\ Len(results) < limit) =>
           \/ threshold # None /\ QueryDistance(i) >= threshold[1]
           \/ Truthy(subject_filter) /\ items[i].subject # subject_filter

\* A call with both filters has returned one row and left out a row of another
\* subject, the limit not being reached.
C14_Witness ==
  /\ api \in Assistants /\ Answered
  /\ threshold # None /\ Truthy(subject_filter)
  /\ Len(results) = 1 /\ Len(results) < limit
  /\ \E i \in 1..Len(items) : ~Returned(i) /\ items[i].subject # subject_filter

\* Row i passes the filters the call was given.
PassesFilters(i) ==
  /\ threshold # None => QueryDistance(i) <= threshold[1]
  /\ Truthy(subject_filter) => items[i].subject = subject_filter

\* C15: a search with limit >= 1 that the store answered returns at most limit
\* rows, and no row that passes the filters and is left out is strictly nearer
\* to the query than a row that is returned.
C15_BestWithinLimit ==
  (api \in Assistants \cup {"search_similar_text"} /\ limit >= 1
     /\ Answered /\ search_outcome = "returned") =>
    /\ Len(results) <= limit
    /\ \A i \in 1..Len(items) :
         (PassesFilters(i) /\ ~Returned(i)) =>
           \A k \in 1..Len(results) :
             ~(QueryDistance(i) < QueryDistance(results[k].name))

\* A search has returned limit rows and left out a row that passes the filters
\* and is farther from the query.
C15_Witness ==
  /\ api \in {"search_similar", "search_similar_text"}
  /\ limit >= 1 /\ Answered /\ search_outcome = "returned"
  /\ Len(results) = limit
  /\ \E i \in 1..Len(items) :
       /\ PassesFilters(i) /\ ~Returned(i)
       /\ QueryDistance(i) > QueryDistance(results[Len(results)].name)

\* C16: when the store answered and none of its rows matches the query, the
\* retrieval function has returned the empty list (not a value of another
\* type, not an exception), and its caller ends without raising.
C16_NoMatchIsEmptyList ==
  (pipeline # "none" /\ Answered /\ \A i \in 1..Len(items) : ~PassesFilters(i)) =>
    /\ search_outcome = "returned" /\ results = <<>>
    /\ apc = "done" => call_outcome = "returned"

\* C17: when the store answered the retrieval and the request to the language
\* model then failed, run_rag_query and the /search route still return: the
\* value handed back holds the retrieved matches and a note in place of the
\* generated answer.
C17_LlmFailureDegrades ==
  (pipeline \in {"run_rag_query", "final_pipeline"} /\ apc = "done"
     /\ Answered /\ search_outcome = "returned"
     /\ llm_reply \in {"status_error", "network_error"}) =>
    /\ call_outcome = "returned"
    /\ delivered
    /\ response = "note"

\* A run of persist_chunks_to_db, and the ids of the chunks it has handled.
PersistRun == script \in {"parse_json", "persist_again"}
Handled == {doc_chunks[k].id : k \in 1..ck}

\* C18: all through a run of persist_chunks_to_db every row that was stored
\* before is still stored with its page, text and embedding, no id is stored
\* twice, and the only new rows are those of handled chunks whose id was not
\* stored before; the commit stores just that.  So a list whose ids are all
\* stored already leaves the store as it was.
C18_DuplicateIdIsNoOp ==
  PersistRun =>
    /\ before \subseteq tx
    /\ \A r \in tx \ before : r.id \in Handled /\ ~HasId(before, r.id)
    /\ \A r1, r2 \in tx : r1.id = r2.id => r1 = r2
    /\ ipc = "idle" => docs = tx

\* A list was persisted again after its text and embedding had changed, under
\* ids that were all stored, and the run has committed.
C18_Witness ==
  /\ script = "persist_again" /\ ipc = "idle" /\ run_outcome = "committed"
  /\ Len(doc_chunks) = 2
  /\ \A k \in 1..Len(doc_chunks) :
       \E r \in before :
         /\ r.id = doc_chunks[k].id
         /\ r.text # doc_chunks[k].text
         /\ r.embedding # doc_chunks[k].embedding
  /\ docs = before

\* The committed rows of a source.
RowsOf(s) == {r \in docs : r.pdf_id = s}

\* The rows of source s are the chunks cs, one row for each.
ExactlyChunks(s, cs) ==
  /\ Cardinality(RowsOf(s)) = Len(cs)
  /\ \A k \in 1..Len(cs) :
       \E r \in RowsOf(s) : r.page = cs[k].page /\ r.text = cs[k].text

\* C19: between runs of pdf_processor's ingest and of the 01a workflow, the
\* rows stored for a source are exactly the chunks of the latest completed
\* ingestion of that source, none of an earlier run beside them.
C19_OnlyLatestIngestion ==
  (ipc = "idle" /\ used \subseteq {"pdf_processor", "parse_json"}) =>
    \A s \in Sources : latest[s] # None => ExactlyChunks(s, latest[s][1])

\* C20: a committed ingestion into pdf_id leaves every row that was stored
\* before under another pdf_id in the store, unchanged.
C20_OtherSourcesKept ==
  (script \in WithBlock /\ ipc = "idle" /\ run_outcome = "committed") =>
    \A r \in before : r.pdf_id # pdf_id => r \in docs

\* The (page, text) pairs of the rows docs holds for source s.
StoredChunks(s) ==
  {[page |-> r.page, text |-> r.text] : r \in WherePdfId(store, s)}

\* docs holds for the source of worker w exactly the chunks of w, each once.
HoldsExactly(w) ==
  /\ StoredChunks(wsrc[w]) = {wchunks[w][k] : k \in 1..Len(wchunks[w])}
  /\ Cardinality(WherePdfId(store, wsrc[w])) = Len(wchunks[w])

BothCommitted == \A w \in Workers : wpc[w] = "committed"

\* C21: when two ingestions with distinct source ids have run concurrently and
\* both have committed, docs holds for each source exactly the chunks of the
\* run on that source, whatever the interleaving of their DELETE and INSERT
\* statements was: no run removes or duplicates a row of the other.
C21_DistinctSourcesIsolated ==
  (BothCommitted /\ wsrc[1] # wsrc[2]) => \A w \in Workers : HoldsExactly(w)

\* Both runs committed chunks on distinct sources that held a row before, and
\* the DELETE of the second began before the first committed.
C21_Witness ==
  /\ BothCommitted /\ wsrc[1] # wsrc[2]
  /\ \A w \in Workers : Len(wchunks[w]) >= 1 /\ OldRow(wsrc[w]) \in wsnap[w]
  /\ \A w \in Workers : HoldsExactly(w)

\* Each DELETE began before the other run committed.
Overlapped ==
  \A w \in Workers : \A o \in Workers \ {w} : wins[o] \cap wsnap[w] = {}

\* C22: two concurrent ingestions into the same source id are not isolated:
\* when each DELETE began before the other run committed, then after both
\* commits docs holds the rows of both runs together.
C22_SameSourceMixes ==
  (BothCommitted /\ wsrc[1] = wsrc[2] /\ Overlapped)
    => (wins[1] \cup wins[2]) \subseteq store

\* Both runs committed chunks into the one source, the first DELETE removed a
\* row the second DELETE wanted as well, and docs holds the rows of both runs:
\* more than the chunk set of either.
C22_Witness ==
  /\ BothCommitted /\ wsrc[1] = wsrc[2] /\ Overlapped
  /\ \A w \in Workers : Len(wchunks[w]) >= 1 /\ OldRow(wsrc[w]) \in wsnap[w]
  /\ (wins[1] \cup wins[2]) \subseteq store
  /\ \A w \in Workers : ~HoldsExactly(w)

\* C23: an ingestion aborted between two chunks, after chunk k was inserted,
\* leaves the k chunks it inserted in the store.
C23_AbortKeepsInserted ==
  \A w \in Workers :
    wpc[w] = "aborted" =>
      \A k \in 1..wk[w] :
        \E r \in WherePdfId(store, wsrc[w]) :
          r.page = wchunks[w][k].page /\ r.text = wchunks[w][k].text

\* The tickets that have an embedding.
Embedded(table) == {t \in DOMAIN table : table[t] # None}

\* C24: the backfill writes an embedding only to tickets whose embedding is
\* missing: no step changes the embedding of a ticket that has one, neither in
\* the open transaction nor in the committed table; over all runs no ticket
\* gets two UPDATEs, and none that had an embedding from the start gets one.
C24_BackfillOnce ==
  /\ [](\A i, j \in DOMAIN updated : updated[i] = updated[j] => i = j)
  /\ [][/\ \A t \in Embedded(btx) : btx'[t] = btx[t]
        /\ \A t \in Embedded(support_tickets) :
             support_tickets'[t] = support_tickets[t]
        /\ (Embedded(support_tickets) = DOMAIN support_tickets /\ bpc = "idle")
             => (updated' = updated /\ support_tickets' = support_tickets)]_vars

\* A run filled the missing embeddings and committed, and a later run found
\* nothing to do and ended without an UPDATE.
C24_Witness ==
  /\ bruns >= 2 /\ bpc = "idle"
  /\ Embedded(support_tickets) = DOMAIN support_tickets
  /\ updated # <<>> /\ Len(updated) < MaxTickets
  /\ fetched = <<>>

\* C25: in run_rag_query the store is queried only after the query embedding
\* succeeded, and once the embedding has succeeded the language model is called
\* only after the store answered the search: a search that failed ends the call
\* as failed, without a request to the language model and without a returned
\* answer.
C25_StagesInOrder ==
  pipeline = "run_rag_query" =>
    /\ executed # <<>> => embed_ok
    /\ (embed_ok /\ llm_reply # "none") => Answered
    /\ (embed_ok /\ apc = "done" /\ ~Answered) => call_outcome # "returned"

\* The number of places where p occurs in s.
Occurrences(s, p) ==
  Cardinality({i \in 1..(Len(s) - Len(p) + 1) : SubSeq(s, i, i + Len(p) - 1) = p})

\* The placeholders put into the text of the page.
PagePlaceholders ==
  {TablePlaceholder(i) : i \in 1..tables}
    \cup (IF diagram THEN {ImagePlaceholder} ELSE {})

\* Placeholder p is whole in exactly one chunk, once.
WholeInOneChunk(p) ==
  /\ Cardinality({k \in 1..Len(chunks) : Contains(chunks[k].text, p)}) = 1
  /\ \A k \in 1..Len(chunks) : Occurrences(chunks[k].text, p) <= 1

\* C26: when chunk_text has returned the chunks of a parsed page, every table
\* placeholder and the page-image placeholder of the page is whole inside
\* exactly one chunk, for every page text and every number of tables.
C26_PlaceholderWhole ==
  (pc = "done" /\ impl = "structural") =>
    \A p \in PagePlaceholders : WholeInOneChunk(p)

\* A page with a legal-transition phrase, two tables and a diagram gave three
\* chunks or more, each placeholder whole in one of them.
C26_Witness ==
  /\ pc = "done" /\ impl = "structural"
  /\ tables = MaxTables /\ diagram
  /\ Len(chunks) >= 2
  /\ \E k \in 1..Len(chunks) : Contains(chunks[k].text, <<"N">>)
  /\ \A p \in PagePlaceholders : WholeInOneChunk(p)

\* The words of the pages that give text, each with the number of its page.
ReadableWords ==
  Flatten([i \in 1..Len(pages) |->
             IF i \in unreadable THEN <<>>
             ELSE [k \in 1..Len(split(pages[i])) |-> <<split(pages[i])[k], i>>]])

\* C27: a page whose text is missing or cannot be extracted gives the chunker
\* no token and no error: the run over a PDF with such a page ends normally,
\* with the words of every other page under their own page numbers.
C27_MissingPageSkipped ==
  (impl \in WordWindow /\ unreadable # {} /\ ValidConfig /\ pc = "done") =>
    /\ outcome = "ok"
    /\ words_with_pages = ReadableWords

\* C28: the chunking loop of pdf_processor.chunks_from_pdf ends for every word
\* list and all integers chunk_size and overlap, overlap >= chunk_size
\* included: the cursor grows by at least 1 with every chunk, and the chunks
\* are never more than the words.
C28_LoopTerminates ==
  /\ <>(pc = "done")
  /\ [](Len(chunks) <= Len(words_with_pages))
  /\ [][chunks' # chunks => start' >= start + 1]_vars

\* The loop has ended with overlap >= chunk_size: one chunk for every word.
C28_Witness ==
  /\ pc = "done" /\ impl = "pdf_processor"
  /\ tokens >= 1 /\ overlap >= tokens
  /\ Len(words_with_pages) >= 2
  /\ Len(chunks) = Len(words_with_pages)

\* A legal-transition phrase, as the text holds it.
Phrase == <<"N">>

GivenOr(option, configured) == IF option = None THEN configured ELSE option[1]

\* C30: the chunk_size and the overlap the ingest command hands to the chunker
\* are the values of --chunk-size and --overlap whenever the option is given,
\* 0 included, and the configured values only when it is not given.
C30_CommandLineWins ==
  (command = "ingest" /\ pc # "ingest_pdf") =>
    /\ tokens = GivenOr(args.chunk_size, config.chunk_size)
    /\ overlap = GivenOr(args.overlap, config.chunk_overlap)

====
